---- MODULE Spec2Model ----
(***************************************************************************)
(* A model of the gwarc record codec: the WARC header codec (Marshal,      *)
(* Unmarshal, Valid), and the stream segmenter (NewWARC / NextChunk).      *)
(* Byte strings are TLA+ strings; every parsing step is computed on the    *)
(* bytes, as the Go code computes it.                                      *)
(***************************************************************************)
EXTENDS Integers, Sequences, FiniteSets, TLC

VARIABLES
    dData,   \* decode: the input byte slice handed to Unmarshal / Valid
    dDst,    \* decode: the destination record as it was before the call
    dOp,     \* decode: the call that has been made ("idle" before any)
    dRes,    \* decode: what the call returned, and the destination after it
    mIn,     \* encode: the value handed to Marshal
    mOp,     \* encode: how far the encode / decode-back sequence has got
    mOut,    \* encode: what Marshal returned
    mBack,   \* encode: what Unmarshal of Marshal's bytes returned
    sRecs,   \* segmenter: the records the byte source was put together from
    sSrc,    \* segmenter: the bytes of the source, and how its Read behaves
    sScan,   \* segmenter: the bufio.Scanner inside the WARC value
    sChunks, \* segmenter: the chunks NextChunk has returned so far, in order
    sLast,   \* segmenter: what the last NextChunk call returned
    nRets    \* segmenter: what the Next calls have returned so far, in order

vars == <<dData, dDst, dOp, dRes, mIn, mOp, mOut, mBack,
          sRecs, sSrc, sScan, sChunks, sLast, nRets>>

sVars == <<sRecs, sSrc, sScan, sChunks, sLast, nRets>>

dVars == <<dData, dDst, dOp, dRes>>

mVars == <<mIn, mOp, mOut, mBack>>

(***************************************************************************)
(* Byte-string helpers (Go's strings package).                             *)
(***************************************************************************)

Min(a, b) == IF a < b THEN a ELSE b

Max(a, b) == IF a > b THEN a ELSE b

\* F applied to the value of v: a Go local variable, assigned once and read
\* many times.
Bind(v, F(_)) == CHOOSE r \in {F(x) : x \in {v}} : TRUE

\* s[i] for a 1-based index i, as a one-byte string.
Ch(s, i) == SubSeq(s, i, i)

\* s[lo:] in Go terms, for a 1-based lo.
From(s, lo) == SubSeq(s, lo, Len(s))

Digits == {"0", "1", "2", "3", "4", "5", "6", "7", "8", "9"}

\* unicode.IsSpace restricted to the ASCII bytes a TLA+ string can hold.
Spaces == {" ", "\t", "\n", "\r", "\f"}

RECURSIVE FirstIn(_, _, _, _)
\* The least index in lo..hi at which s holds the byte c, or 0 when there is
\* none.  The search halves the range so that long inputs do not nest deeply.
FirstIn(s, c, lo, hi) ==
    IF lo > hi THEN 0
    ELSE IF lo = hi THEN (IF Ch(s, lo) = c THEN lo ELSE 0)
    ELSE LET mid == (lo + hi) \div 2
             l == FirstIn(s, c, lo, mid)
         IN IF l # 0 THEN l ELSE FirstIn(s, c, mid + 1, hi)

RECURSIVE TrimLeft(_)
TrimLeft(s) ==
    IF Len(s) > 0 /\ Ch(s, 1) \in Spaces THEN TrimLeft(From(s, 2)) ELSE s

RECURSIVE TrimRight(_)
TrimRight(s) ==
    IF Len(s) > 0 /\ Ch(s, Len(s)) \in Spaces
    THEN TrimRight(SubSeq(s, 1, Len(s) - 1)) ELSE s

\* strings.TrimSpace
TrimSpace(s) == TrimRight(TrimLeft(s))

\* strings.HasPrefix
HasPrefix(s, p) == Len(s) >= Len(p) /\ SubSeq(s, 1, Len(p)) = p

\* strings.TrimPrefix
TrimPrefix(s, p) == IF HasPrefix(s, p) THEN From(s, Len(p) + 1) ELSE s

\* strings.SplitN(s, sep, 2) for a one-byte sep: one part when sep is absent.
SplitN2(s, sep) ==
    LET i == FirstIn(s, sep, 1, Len(s))
    IN IF i = 0 THEN <<s>> ELSE <<SubSeq(s, 1, i - 1), From(s, i + 1)>>

DigitVal(c) ==
    CASE c = "0" -> 0 [] c = "1" -> 1 [] c = "2" -> 2 [] c = "3" -> 3
      [] c = "4" -> 4 [] c = "5" -> 5 [] c = "6" -> 6 [] c = "7" -> 7
      [] c = "8" -> 8 [] c = "9" -> 9

DigitStr(d) ==
    CASE d = 0 -> "0" [] d = 1 -> "1" [] d = 2 -> "2" [] d = 3 -> "3"
      [] d = 4 -> "4" [] d = 5 -> "5" [] d = 6 -> "6" [] d = 7 -> "7"
      [] d = 8 -> "8" [] d = 9 -> "9"

AllDigits(s) == \A i \in 1..Len(s) : Ch(s, i) \in Digits

RECURSIVE DigitsVal(_)
DigitsVal(s) ==
    IF Len(s) = 0 THEN 0
    ELSE 10 * DigitsVal(SubSeq(s, 1, Len(s) - 1)) + DigitVal(Ch(s, Len(s)))

RECURSIVE Itoa(_)
\* strconv.FormatInt(n, 10) / strconv.FormatUint(n, 10) / strconv.Itoa.
Itoa(n) ==
    IF n < 0 THEN "-" \o Itoa(0 - n)
    ELSE IF n < 10 THEN DigitStr(n)
    ELSE Itoa(n \div 10) \o DigitStr(n % 10)

\* The longest digit string the model's integers represent without overflow.
MaxDigits == 9

\* strconv.ParseInt(s, 10, 64): an optional sign and then one or more decimal
\* digits; anything else is a syntax error.  (Values beyond MaxDigits digits,
\* where the 64-bit range check would start to matter, are outside the model.)
ParseInt(s) ==
    LET signed == Len(s) > 0 /\ Ch(s, 1) \in {"+", "-"}
        body == IF signed THEN From(s, 2) ELSE s
        good == Len(body) > 0 /\ Len(body) <= MaxDigits /\ AllDigits(body)
    IN IF ~good THEN [ok |-> FALSE, val |-> 0]
       ELSE [ok |-> TRUE,
             val |-> IF signed /\ Ch(s, 1) = "-" THEN 0 - DigitsVal(body)
                     ELSE DigitsVal(body)]

\* strconv.ParseUint(s, 10, 64): decimal digits only, no sign.
ParseUint(s) ==
    IF Len(s) > 0 /\ Len(s) <= MaxDigits /\ AllDigits(s)
    THEN [ok |-> TRUE, val |-> DigitsVal(s)]
    ELSE [ok |-> FALSE, val |-> 0]

(***************************************************************************)
(* time.Time, time.Parse(time.RFC3339, _) and Time.Format(time.RFC3339).   *)
(* A time is its civil fields, its nanoseconds and its zone ("Z" or        *)
(* "+hh:mm" / "-hh:mm").                                                   *)
(***************************************************************************)

MkTime(y, mo, d, h, mi, sec, ns, zone) ==
    [year |-> y, month |-> mo, day |-> d, hour |-> h, min |-> mi,
     sec |-> sec, nsec |-> ns, zone |-> zone]

\* The zero value time.Time{}: January 1, year 1, 00:00:00 UTC.
ZeroTime == MkTime(1, 1, 1, 0, 0, 0, 0, "Z")

\* Time.IsZero (in the model every zero instant is written in UTC).
IsZeroTime(t) == t = ZeroTime

Pad2(n) == IF n < 10 THEN "0" \o Itoa(n) ELSE Itoa(n)

Pad4(n) ==
    IF n < 10 THEN "000" \o Itoa(n)
    ELSE IF n < 100 THEN "00" \o Itoa(n)
    ELSE IF n < 1000 THEN "0" \o Itoa(n)
    ELSE Itoa(n)

\* t.Format(time.RFC3339): second precision, the nanoseconds are not written.
FormatRFC3339(t) ==
    Pad4(t.year) \o "-" \o Pad2(t.month) \o "-" \o Pad2(t.day) \o "T" \o
    Pad2(t.hour) \o ":" \o Pad2(t.min) \o ":" \o Pad2(t.sec) \o t.zone

IsLeap(y) == y % 4 = 0 /\ (y % 100 # 0 \/ y % 400 = 0)

DaysIn(mo, y) ==
    IF mo = 2 THEN (IF IsLeap(y) THEN 29 ELSE 28)
    ELSE IF mo \in {4, 6, 9, 11} THEN 30 ELSE 31

\* A numeric zone "+hh:mm" or "-hh:mm" with hh < 24 and mm < 60.
IsNumZone(z) ==
    /\ Len(z) = 6
    /\ Ch(z, 1) \in {"+", "-"}
    /\ AllDigits(SubSeq(z, 2, 3))
    /\ Ch(z, 4) = ":"
    /\ AllDigits(SubSeq(z, 5, 6))
    /\ DigitsVal(SubSeq(z, 2, 3)) < 24
    /\ DigitsVal(SubSeq(z, 5, 6)) < 60

\* The 9-digit nanosecond count of a fraction's digits (".5" is 500000000).
RECURSIVE FracNanos(_, _)
FracNanos(ds, scale) ==
    IF Len(ds) = 0 \/ scale = 0 THEN 0
    ELSE DigitVal(Ch(ds, 1)) * scale + FracNanos(From(ds, 2), scale \div 10)

\* time.Parse(time.RFC3339, s): "2006-01-02T15:04:05" in digits, an optional
\* fraction of a second, then "Z" or a numeric zone.  A zone of zero offset
\* yields UTC.
ParseRFC3339(s) ==
    LET bad == [ok |-> FALSE, t |-> ZeroTime]
        shape == /\ Len(s) >= 20
                 /\ AllDigits(SubSeq(s, 1, 4)) /\ Ch(s, 5) = "-"
                 /\ AllDigits(SubSeq(s, 6, 7)) /\ Ch(s, 8) = "-"
                 /\ AllDigits(SubSeq(s, 9, 10)) /\ Ch(s, 11) = "T"
                 /\ AllDigits(SubSeq(s, 12, 13)) /\ Ch(s, 14) = ":"
                 /\ AllDigits(SubSeq(s, 15, 16)) /\ Ch(s, 17) = ":"
                 /\ AllDigits(SubSeq(s, 18, 19))
        rest == From(s, 20)
        hasFrac == Len(rest) > 0 /\ Ch(rest, 1) = "."
        zpos == IF hasFrac
                THEN LET z == FirstIn(rest, "Z", 2, Len(rest))
                         p == FirstIn(rest, "+", 2, Len(rest))
                         m == FirstIn(rest, "-", 2, Len(rest))
                     IN IF z # 0 THEN z ELSE IF p # 0 THEN p ELSE m
                ELSE 1
        frac == IF hasFrac /\ zpos > 2 THEN SubSeq(rest, 2, zpos - 1) ELSE ""
        zone == IF zpos = 0 THEN "" ELSE From(rest, zpos)
        y == DigitsVal(SubSeq(s, 1, 4))
        mo == DigitsVal(SubSeq(s, 6, 7))
        d == DigitsVal(SubSeq(s, 9, 10))
        h == DigitsVal(SubSeq(s, 12, 13))
        mi == DigitsVal(SubSeq(s, 15, 16))
        sec == DigitsVal(SubSeq(s, 18, 19))
    IN IF ~shape THEN bad
       ELSE IF hasFrac /\ (Len(frac) = 0 \/ ~AllDigits(frac)) THEN bad
       ELSE IF ~(zone = "Z" \/ IsNumZone(zone)) THEN bad
       ELSE IF ~(mo \in 1..12 /\ d \in 1..DaysIn(mo, y) /\ h < 24 /\ mi < 60 /\ sec < 60)
            THEN bad
       ELSE [ok |-> TRUE,
             t |-> MkTime(y, mo, d, h, mi, sec, FracNanos(frac, 100000000),
                          IF zone \in {"+00:00", "-00:00"} THEN "Z" ELSE zone)]

(***************************************************************************)
(* bufio.Reader over bytes.Reader, as Unmarshal and Valid use it.  The     *)
(* reader state is r (bytes consumed), w (bytes fetched into the buffer,   *)
(* so data[r+1..w] is buffered) and eof (the pending read error).          *)
(***************************************************************************)

\* bufio's defaultBufSize, the size bufio.NewReader gives the buffer.
defaultBufSize == 4096

NewReader == [r |-> 0, w |-> 0, eof |-> FALSE]

\* Reader.fill: slide the buffered bytes down and read once from the
\* bytes.Reader, which copies what fits or reports io.EOF when it is empty.
Fill(data, st) ==
    IF st.w >= Len(data) THEN [st EXCEPT !.eof = TRUE]
    ELSE [st EXCEPT !.w = Min(Len(data), st.r + defaultBufSize)]

RECURSIVE ReadStringFrom(_, _, _)
\* Reader.ReadString('\n') for a line that started at offset from: the bytes
\* up to and including the newline, or err with the rest at end of input.
ReadStringFrom(data, st, from) ==
    LET k == FirstIn(data, "\n", st.r + 1, st.w)
    IN IF k # 0
       THEN [line |-> SubSeq(data, from + 1, k), err |-> FALSE,
             st |-> [st EXCEPT !.r = k]]
       ELSE IF st.eof
       THEN [line |-> SubSeq(data, from + 1, st.w), err |-> TRUE,
             st |-> [r |-> st.w, w |-> st.w, eof |-> FALSE]]
       ELSE IF st.w - st.r >= defaultBufSize
       THEN ReadStringFrom(data, [st EXCEPT !.r = st.w], from)
       ELSE ReadStringFrom(data, Fill(data, st), from)

ReadString(data, st) == ReadStringFrom(data, st, st.r)

\* The byte the model writes for 0x00, which a TLA+ string cannot hold; no
\* input of the model contains it.
NUL == "~"

RECURSIVE Rep(_, _)
\* strings.Repeat(s, n)
Rep(s, n) ==
    IF n <= 0 THEN ""
    ELSE LET h == Rep(s, n \div 2)
         IN IF n % 2 = 1 THEN h \o h \o s ELSE h \o h

\* make([]byte, n) followed by one reader.Read(content): the slice after the
\* call (what one Read copied, the rest still zero) and whether Read failed.
\* A single Read returns what is buffered; with an empty buffer it reads the
\* source once, directly into the slice when the slice is at least a buffer
\* long.
ReadContent(data, st, n) ==
    LET buffered == st.w - st.r
        remaining == Len(data) - st.w
        got == IF buffered > 0 THEN Min(n, buffered)
               ELSE IF n >= defaultBufSize THEN Min(n, remaining)
               ELSE Min(n, Min(defaultBufSize, remaining))
        err == IF n = 0 THEN buffered = 0 /\ st.eof
               ELSE buffered = 0 /\ (st.eof \/ remaining = 0)
    IN [content |-> IF err THEN Rep(NUL, n)
                    ELSE SubSeq(data, st.r + 1, st.r + got) \o Rep(NUL, n - got),
        n |-> IF err THEN 0 ELSE got,
        err |-> err]

(***************************************************************************)
(* The record types and their field tags (the `warc:"..."` struct tags).   *)
(***************************************************************************)

WARCVariant1_0 == "1.0"

WARCVariant1_1 == "1.1"

Tag(name, key, omitempty, kind) ==
    [name |-> name, key |-> key, omitempty |-> omitempty, kind |-> kind]

\* The tagged fields of WARCRecord, in declaration order.  WARCRecordType
\* and TruncatedReason are string kinds.
WARCRecordTags == <<
    Tag("RecordID", "WARC-Record-ID", FALSE, "string"),
    Tag("ContentLength", "Content-Length", FALSE, "uint"),
    Tag("Date", "WARC-Date", FALSE, "time"),
    Tag("Type", "WARC-Type", FALSE, "string"),
    Tag("ContentType", "Content-Type", TRUE, "string"),
    Tag("ConcurrentTo", "WARC-Concurrent-To", TRUE, "slice"),
    Tag("BlockDigest", "WARC-Block-Digest", TRUE, "string"),
    Tag("PayloadDigest", "WARC-Payload-Digest", TRUE, "string"),
    Tag("IPAddress", "WARC-IP-Address", TRUE, "string"),
    Tag("RefersTo", "WARC-Refers-To", TRUE, "string"),
    Tag("RefersToTargetURI", "WARC-Refers-To-Target-URI", TRUE, "string"),
    Tag("RefersToDate", "WARC-Refers-To-Date", TRUE, "time"),
    Tag("TargetURI", "WARC-Target-URI", TRUE, "string"),
    Tag("Truncated", "WARC-Truncated", TRUE, "string"),
    Tag("WarcinfoID", "WARC-Warcinfo-ID", TRUE, "string"),
    Tag("Filename", "WARC-Filename", TRUE, "string"),
    Tag("Profile", "WARC-Profile", TRUE, "string"),
    Tag("IdentifiedPayloadType", "WARC-Identified-Payload-Type", TRUE, "string"),
    Tag("SegmentNumber", "WARC-Segment-Number", TRUE, "int"),
    Tag("SegmentOriginID", "WARC-Segment-Origin-ID", TRUE, "string"),
    Tag("SegmentTotalLength", "WARC-Segment-Total-Length", TRUE, "uint") >>

\* The zero value of a field of the given kind.
ZeroOf(kind) ==
    CASE kind = "string" -> ""
      [] kind = "int" -> 0
      [] kind = "uint" -> 0
      [] kind = "time" -> ZeroTime
      [] kind = "slice" -> << >>

TagNames(tags) == {tags[i].name : i \in 1..Len(tags)}

TagOf(tags, name) == tags[CHOOSE i \in 1..Len(tags) : tags[i].name = name]

\* The zero value of a struct with the given tags, a Version and, when
\* hasContent, a Content byte slice.
ZeroStruct(tags, hasContent) ==
    [n \in TagNames(tags) \cup {"Version"} \cup (IF hasContent THEN {"Content"} ELSE {})
        |-> IF n \in {"Version", "Content"} THEN "" ELSE ZeroOf(TagOf(tags, n).kind)]

\* WARCRecord{}: every field at its zero value.
ZeroWARCRecord == ZeroStruct(WARCRecordTags, TRUE)

(***************************************************************************)
(* Unmarshal and Valid.                                                    *)
(***************************************************************************)

\* The version check both Unmarshal and Valid make on the first line:
\* strings.TrimSpace(strings.TrimPrefix(versionLine, "WARC/")).
VersionOf(versionLine) == TrimSpace(TrimPrefix(versionLine, "WARC/"))

SupportedVersion(version) == version \in {WARCVariant1_0, WARCVariant1_1}

\* A Go map[string]string: the keys present, their values, and the keys in
\* the order in which they were first set (the order of their slots).
EmptyMap == [keys |-> {}, val |-> [k \in {} |-> ""], ins |-> << >>]

MapSet(m, k, v) ==
    [keys |-> m.keys \cup {k},
     val |-> [x \in m.keys \cup {k} |-> IF x = k THEN v ELSE m.val[x]],
     ins |-> IF k \in m.keys THEN m.ins ELSE Append(m.ins, k)]

\* m[k], the empty string when k is absent.
MapGet(m, k) == IF k \in m.keys THEN m.val[k] ELSE ""

\* A header loop that skips a line without a colon instead of refusing it.
HeaderLineLenient(headers, line) ==
    LET parts == SplitN2(line, ":")
    IN IF Len(parts) # 2 THEN [err |-> FALSE, headers |-> headers]
       ELSE [err |-> FALSE,
             headers |-> MapSet(headers, TrimSpace(parts[1]), TrimSpace(parts[2]))]

\* One header line, trimmed and not blank: the error of a line that
\* strings.SplitN(line, ":", 2) does not cut in two, else the map with the
\* trimmed key set to the trimmed value.
HeaderLine(headers, line) ==
    LET parts == SplitN2(line, ":")
    IN IF Len(parts) # 2 THEN [err |-> TRUE, headers |-> headers]
       ELSE [err |-> FALSE,
             headers |-> MapSet(headers, TrimSpace(parts[1]), TrimSpace(parts[2]))]

RECURSIVE ReadHeaders(_, _, _)
\* The header loop: read lines up to the first blank one.
ReadHeaders(data, st, headers) ==
    LET rd == ReadString(data, st)
        line == TrimSpace(rd.line)
        hl == HeaderLine(headers, line)
    IN IF rd.err THEN [err |-> "failed to read header", st |-> rd.st, headers |-> headers]
       ELSE IF line = "" THEN [err |-> "", st |-> rd.st, headers |-> headers]
       ELSE IF hl.err THEN [err |-> "invalid header format", st |-> rd.st, headers |-> headers]
       ELSE ReadHeaders(data, rd.st, hl.headers)

\* setField: store value into a field of the given kind.  Only the string,
\* int and time kinds have a case; a value that does not parse leaves the
\* field as it is, and the function returns nil whatever happens.
setField(old, kind, value) ==
    CASE kind = "string" -> value
      [] kind = "int" -> IF ParseInt(value).ok THEN ParseInt(value).val ELSE old
      [] kind = "time" -> IF ParseRFC3339(value).ok THEN ParseRFC3339(value).t ELSE old
      [] OTHER -> old

RECURSIVE SetFields(_, _, _, _)
\* The loop over the struct's fields, from field i on.
SetFields(rec, tags, headers, i) ==
    IF i > Len(tags) THEN rec
    ELSE LET t == tags[i]
             exists == t.key \in headers.keys
         IN IF ~exists /\ t.omitempty
            THEN SetFields(rec, tags, headers, i + 1)
            ELSE SetFields([rec EXCEPT ![t.name] = setField(rec[t.name], t.kind, MapGet(headers, t.key))],
                           tags, headers, i + 1)

Result(outcome, err, rec) == [outcome |-> outcome, err |-> err, rec |-> rec]

\* Unmarshal(data, &dst) into a plain record, in package pkg: "warc" is the
\* warc package, which stores Content, and "gwarc" the root package, which
\* reads the content and drops it.
UnmarshalRecord(pkg, data, dst) ==
    LET vl == ReadString(data, NewReader)
        version == VersionOf(vl.line)
        rec1 == [dst EXCEPT !.Version = version]
        hs == ReadHeaders(data, vl.st, EmptyMap)
        cl == ParseInt(MapGet(hs.headers, "Content-Length"))
        contentLength == IF cl.ok THEN cl.val ELSE 0
        rd == ReadContent(data, hs.st, contentLength)
        rec2 == IF pkg = "warc" THEN [rec1 EXCEPT !.Content = rd.content] ELSE rec1
    IN IF vl.err THEN Result("error", "failed to read version", dst)
       ELSE IF ~SupportedVersion(version) THEN Result("error", "unsupported WARC version", dst)
       ELSE IF hs.err # "" THEN Result("error", hs.err, rec1)
       ELSE IF contentLength < 0 THEN Result("panic", "makeslice: len out of range", rec1)
       ELSE IF rd.err THEN Result("error", "failed to read content", rec1)
       ELSE Result("ok", "", SetFields(rec2, WARCRecordTags, hs.headers, 1))

\* Valid(data): the same reading, with the Content-Length header required
\* and parsed, and nothing stored.
Valid(data) ==
    LET vl == ReadString(data, NewReader)
        version == VersionOf(vl.line)
        hs == ReadHeaders(data, vl.st, EmptyMap)
        cl == ParseInt(MapGet(hs.headers, "Content-Length"))
        rd == ReadContent(data, hs.st, cl.val)
        Ret(outcome, err) == [outcome |-> outcome, err |-> err]
    IN IF vl.err THEN Ret("error", "failed to read version")
       ELSE IF ~SupportedVersion(version) THEN Ret("error", "unsupported WARC version")
       ELSE IF hs.err # "" THEN Ret("error", hs.err)
       ELSE IF "Content-Length" \notin hs.headers.keys
            THEN Ret("error", "missing Content-Length header")
       ELSE IF ~cl.ok THEN Ret("error", "invalid Content-Length value")
       ELSE IF cl.val < 0 THEN Ret("panic", "makeslice: len out of range")
       ELSE IF rd.err THEN Ret("error", "failed to read content")
       ELSE Ret("ok", "")

(***************************************************************************)
(* Marshal of the root package, and the Validate methods.                  *)
(***************************************************************************)

\* The tagged fields of the root package's WarcInfoRecord.
WarcInfoTags == <<
    Tag("Operator", "operator", FALSE, "string"),
    Tag("Software", "software", FALSE, "string"),
    Tag("Robots", "robots", FALSE, "string"),
    Tag("Hostname", "hostname", FALSE, "string"),
    Tag("IP", "ip", FALSE, "string"),
    Tag("UserAgent", "http-header-user-agent", FALSE, "string"),
    Tag("From", "http-header-from", FALSE, "string") >>

\* The tagged fields of the root package's MetadataRecord.
MetadataTags == <<
    Tag("Via", "via", FALSE, "string"),
    Tag("HopsFromSeed", "hopsFromSeed", FALSE, "string"),
    Tag("FetchTimeMs", "fetchTimeMs", FALSE, "uint") >>

StructTypes == {"WARCRecord", "WarcInfoRecord", "MetadataRecord"}

TagsOf(type) ==
    CASE type = "WARCRecord" -> WARCRecordTags
      [] type = "WarcInfoRecord" -> WarcInfoTags
      [] type = "MetadataRecord" -> MetadataTags

\* (*WARCRecord).Validate: the error message, "" for nil.
ValidateWARCRecord(w) ==
    IF w.Version = "" THEN "WARC version is required"
    ELSE IF w.RecordID = "" THEN "WARC-Record-ID is required"
    ELSE IF IsZeroTime(w.Date) THEN "WARC-Date is required"
    ELSE IF w.Type = "" THEN "WARC-Type is required"
    ELSE ""

\* (*WarcInfoRecord).Validate
ValidateWarcInfo(w) ==
    IF w.Version = "" THEN "WARC version is required"
    ELSE IF w.Operator = "" THEN "operator is required"
    ELSE IF w.Software = "" THEN "software is required"
    ELSE IF w.Robots = "" THEN "robots is required"
    ELSE IF w.Hostname = "" THEN "hostname is required"
    ELSE IF w.IP = "" THEN "IP is required"
    ELSE IF w.UserAgent = "" THEN "http-header-user-agent is required"
    ELSE IF w.From = "" THEN "http-header-from is required"
    ELSE ""

\* (*MetadataRecord).Validate
ValidateMetadata(m) ==
    IF m.Version = "" THEN "WARC version is required"
    ELSE IF m.Via = "" THEN "via is required"
    ELSE IF m.HopsFromSeed = "" THEN "hopsFromSeed is required"
    ELSE IF m.FetchTimeMs = 0 THEN "fetchTimeMs is required"
    ELSE ""

Validate(type, val) ==
    CASE type = "WARCRecord" -> ValidateWARCRecord(val)
      [] type = "WarcInfoRecord" -> ValidateWarcInfo(val)
      [] type = "MetadataRecord" -> ValidateMetadata(val)

\* The Validate methods have pointer receivers, so the type assertion
\* v.(interface{ Validate() error }) succeeds for a pointer to a record and
\* fails for a record passed by value.
ImplementsValidate(v) == v.type \in StructTypes /\ v.ptr

RECURSIVE Join(_, _)
\* strings.Join
Join(values, sep) ==
    IF Len(values) = 0 THEN ""
    ELSE IF Len(values) = 1 THEN values[1]
    ELSE values[1] \o sep \o Join(Tail(values), sep)

formatFieldValue(kind, val) ==
    CASE kind = "string" -> val
      [] kind = "int" -> Itoa(val)
      [] kind = "uint" -> Itoa(val)
      [] kind = "slice" -> Join(val, ", ")
      [] kind = "time" -> FormatRFC3339(val)

RECURSIVE HeadersFrom(_, _, _, _)
\* The headers map Marshal fills from the tagged fields, from field i on.
HeadersFrom(val, tags, headers, i) ==
    IF i > Len(tags) THEN headers
    ELSE LET t == tags[i]
             value == formatFieldValue(t.kind, val[t.name])
         IN IF value = "" /\ t.omitempty
            THEN HeadersFrom(val, tags, headers, i + 1)
            ELSE HeadersFrom(val, tags, MapSet(headers, t.key, value), i + 1)

MarshalHeaders(v) == HeadersFrom(v.val, TagsOf(v.type), EmptyMap, 1)

\* The orders in which `for name, value := range headers` may visit the
\* keys.  The order is not specified by the language.  A map of at most
\* eight keys fills the slots of its one bucket in insertion order, and
\* ranging over it starts at a slot chosen at random and wraps around: the
\* orders are the rotations of the insertion order.  (The values the model
\* marshals yield at most eight headers.)
Rotations(ins) ==
    {SubSeq(ins, k, Len(ins)) \o SubSeq(ins, 1, k - 1) : k \in 1..Max(1, Len(ins))}

\* The orders of the header lines Marshal may write for v.
Orders(v) ==
    IF v.type \in StructTypes THEN Rotations(MarshalHeaders(v).ins) ELSE {<< >>}

RECURSIVE HeaderBytes(_, _)
HeaderBytes(headers, order) ==
    IF Len(order) = 0 THEN ""
    ELSE Head(order) \o ": " \o headers.val[Head(order)] \o "\r\n"
         \o HeaderBytes(headers, Tail(order))

Value(type, ptr, val) == [type |-> type, ptr |-> ptr, val |-> val]

\* The nil interface value.
NilValue == Value("nil", FALSE, [nil |-> TRUE])

MResult(outcome, err, bytes) == [outcome |-> outcome, err |-> err, bytes |-> bytes]

\* Marshal(v) when ranging over the headers map visits the keys in the given
\* order: the version line, the header lines, a Content-Length line computed
\* from Content, the blank line and the content.
Marshal(v, order) ==
    IF v.type \notin StructTypes
    THEN MResult("error", "v must be a struct or pointer to struct", "")
    ELSE IF ImplementsValidate(v) /\ Validate(v.type, v.val) # ""
    THEN MResult("error", Validate(v.type, v.val), "")
    ELSE MResult("ok", "",
            "WARC/" \o v.val.Version \o "\r\n"
            \o HeaderBytes(MarshalHeaders(v), order)
            \o (IF "Content" \in DOMAIN v.val
                THEN "Content-Length: " \o Itoa(Len(v.val.Content)) \o "\r\n"
                     \o "\r\n" \o v.val.Content
                ELSE "Content-Length: 0\r\n\r\n"))

(***************************************************************************)
(* The warcinfo and metadata records of the warc package: a WARCRecord     *)
(* with extra fields, encoded by MarshalWARCRecord and decoded by          *)
(* UnmarshalWARCRecord.                                                    *)
(***************************************************************************)

\* The fields of warcInfoExtraRecord, in declaration order.
warcInfoExtraRecord == <<
    Tag("Operator", "operator", FALSE, "string"),
    Tag("Software", "software", FALSE, "string"),
    Tag("Robots", "robots", FALSE, "string"),
    Tag("Hostname", "hostname", FALSE, "string"),
    Tag("IP", "ip", FALSE, "string"),
    Tag("UserAgent", "http-header-user-agent", FALSE, "string"),
    Tag("From", "http-header-from", FALSE, "string") >>

\* The fields of metadataExtraRecord, in declaration order.
metadataExtraRecord == <<
    Tag("Via", "via", FALSE, "string"),
    Tag("HopsFromSeed", "hopsFromSeed", FALSE, "string"),
    Tag("FetchTimeMs", "fetchTimeMs", FALSE, "uint") >>

KindTypes == {"warc.WarcInfoRecord", "warc.MetadataRecord"}

ExtraTags(type) ==
    IF type = "warc.WarcInfoRecord" THEN warcInfoExtraRecord ELSE metadataExtraRecord

\* The zero value of a record of the kind: WARCRecord{} and zero extra fields.
ZeroKind(type) ==
    [n \in DOMAIN ZeroWARCRecord \cup TagNames(ExtraTags(type))
        |-> IF n \in DOMAIN ZeroWARCRecord THEN ZeroWARCRecord[n]
            ELSE ZeroOf(TagOf(ExtraTags(type), n).kind)]

\* w.WARCRecord: the embedded record.
Embedded(w) == [n \in DOMAIN ZeroWARCRecord |-> w[n]]

\* The record with its embedded WARCRecord replaced.
WithEmbedded(w, r) == [n \in DOMAIN w |-> IF n \in DOMAIN r THEN r[n] ELSE w[n]]

RECURSIVE extraRecordResult(_, _, _)
\* The "key: value\n" lines of the extra fields that are not zero, in the
\* order of the if statements.
extraRecordResult(w, tags, i) ==
    IF i > Len(tags) THEN ""
    ELSE LET t == tags[i]
         IN (IF w[t.name] # ZeroOf(t.kind)
             THEN t.key \o ": " \o formatFieldValue(t.kind, w[t.name]) \o "\n"
             ELSE "")
            \o extraRecordResult(w, tags, i + 1)

\* The orders of the header lines Marshal(w.WARCRecord) may write.
KindOrders(v) ==
    IF v.type \in KindTypes THEN Orders(Value("WARCRecord", FALSE, Embedded(v.val)))
    ELSE {<< >>}

\* (*WarcInfoRecord).MarshalWARCRecord and (*MetadataRecord).MarshalWARCRecord:
\* Marshal of the embedded record, passed by value, and then the extra lines
\* appended to the bytes it returned.
MarshalWARCRecord(v, order) ==
    LET r == Marshal(Value("WARCRecord", FALSE, Embedded(v.val)), order)
    IN IF r.outcome # "ok" THEN r
       ELSE MResult("ok", "",
                r.bytes \o extraRecordResult(v.val, ExtraTags(v.type), 1))

RECURSIVE Split(_, _)
\* bytes.Split(s, sep) for a one-byte separator.
Split(s, sep) ==
    LET p == FirstIn(s, sep, 1, Len(s))
    IN IF p = 0 THEN <<s>>
       ELSE <<SubSeq(s, 1, p - 1)>> \o Split(From(s, p + 1), sep)

\* The switch on the key of one payload line: the extra field it sets, and
\* whether storing the value failed.
setExtra(type, w, key, value) ==
    IF type = "warc.WarcInfoRecord"
    THEN CASE key = "robots" -> [err |-> FALSE, rec |-> [w EXCEPT !.Robots = value]]
           [] key = "hostname" -> [err |-> FALSE, rec |-> [w EXCEPT !.Hostname = value]]
           [] key = "software" -> [err |-> FALSE, rec |-> [w EXCEPT !.Software = value]]
           [] key = "operator" -> [err |-> FALSE, rec |-> [w EXCEPT !.Operator = value]]
           [] OTHER -> [err |-> FALSE, rec |-> w]
    ELSE CASE key = "via" -> [err |-> FALSE, rec |-> [w EXCEPT !.Via = value]]
           [] key = "hopsFromSeed" -> [err |-> FALSE, rec |-> [w EXCEPT !.HopsFromSeed = value]]
           [] key = "fetchTimeMs" ->
                [err |-> ~ParseUint(value).ok,
                 rec |-> [w EXCEPT !.FetchTimeMs = ParseUint(value).val]]
           [] OTHER -> [err |-> FALSE, rec |-> w]

RECURSIVE ExtraFrom(_, _, _, _)
\* The loop over the payload's lines, from line i on: a line that does not
\* split in two at a colon is skipped.
ExtraFrom(type, w, lines, i) ==
    IF i > Len(lines) THEN Result("ok", "", w)
    ELSE LET parts == SplitN2(lines[i], ":")
             set == setExtra(type, w, TrimSpace(parts[1]), TrimSpace(parts[2]))
         IN IF Len(parts) # 2 THEN ExtraFrom(type, w, lines, i + 1)
            ELSE IF set.err THEN Result("error", "invalid syntax", set.rec)
            ELSE ExtraFrom(type, set.rec, lines, i + 1)

\* (*WarcInfoRecord).UnmarshalWARCRecord and
\* (*MetadataRecord).UnmarshalWARCRecord into a zero record of the kind.
UnmarshalWARCRecord(type, data) ==
    Bind(UnmarshalRecord("warc", data, ZeroWARCRecord),
         LAMBDA r :
            Bind(WithEmbedded(ZeroKind(type), r.rec),
                 LAMBDA w :
                    IF r.outcome # "ok" THEN Result(r.outcome, r.err, w)
                    ELSE ExtraFrom(type, w, Split(w.Content, "\n"), 1)))

(***************************************************************************)
(* The stream segmenter: NewWARC's split function inside a bufio.Scanner,  *)
(* and NextChunk.                                                          *)
(***************************************************************************)

RECURSIVE IndexIn(_, _, _, _)
\* The least p in lo..hi at which s holds pat, or 0 when there is none.
IndexIn(s, pat, lo, hi) ==
    IF lo > hi THEN 0
    ELSE IF lo = hi
    THEN (IF SubSeq(s, lo, lo + Len(pat) - 1) = pat THEN lo ELSE 0)
    ELSE LET mid == (lo + hi) \div 2
             l == IndexIn(s, pat, lo, mid)
         IN IF l # 0 THEN l ELSE IndexIn(s, pat, mid + 1, hi)

\* bytes.Index(data, pat), 0-based, -1 when pat does not occur.
Index(data, pat) == IndexIn(data, pat, 1, Len(data) - Len(pat) + 1) - 1

Marker == "WARC/"

Token(advance, has, token) == [advance |-> advance, has |-> has, token |-> token]

\* The split function NewWARC gives the scanner: the bytes before the first
\* marker when the data does not start with one, else the bytes up to the
\* next marker, or all the data at end of input; no token (a request for
\* more data) otherwise.
split(data, atEOF) ==
    LET i == Index(data, Marker)
        j == Index(From(data, i + 5 + 1), Marker)
    IN IF atEOF /\ Len(data) = 0 THEN Token(0, FALSE, "")
       ELSE IF i > 0 THEN Token(i, TRUE, SubSeq(data, 1, i))
       ELSE IF i = 0 /\ j >= 0 THEN Token(i + j + 5, TRUE, SubSeq(data, i + 1, i + j + 5))
       ELSE IF i = 0 /\ atEOF THEN Token(Len(data), TRUE, data)
       ELSE Token(0, FALSE, "")

\* bufio's startBufSize: the first size of the scanner's buffer.
startBufSize == 4096

\* bufio.MaxScanTokenSize, the default limit of the scanner's buffer.
maxTokenSize == 65536

\* bufio.NewScanner(r): no buffer yet.  off is the offset in the source of
\* the byte at buf[start]; err is the error of the last read, "" for none.
Source(bytes, chunk, failAt) == [bytes |-> bytes, chunk |-> chunk, failAt |-> failAt]

NewScanner == [off |-> 0, start |-> 0, end |-> 0, bufLen |-> 0, err |-> ""]

\* One r.Read(buf[end:]) of the source: the reader hands over at most
\* src.chunk bytes at a time, fails with its error once src.failAt bytes have
\* been read (never, when failAt is -1) and reports io.EOF at the end.
ReadInto(src, st) ==
    LET pos == st.off + (st.end - st.start)
        limit == IF src.failAt >= 0 THEN Min(src.failAt, Len(src.bytes)) ELSE Len(src.bytes)
        n == Min(Min(src.chunk, st.bufLen - st.end), limit - pos)
    IN IF n > 0 THEN [st EXCEPT !.end = st.end + n]
       ELSE IF src.failAt >= 0 /\ pos >= src.failAt THEN [st EXCEPT !.err = "read error"]
       ELSE [st EXCEPT !.err = "EOF"]

\* The scanner's step before a read: slide the data to the front of the
\* buffer when space is needed, and double a full buffer up to the limit.
MakeRoom(st) ==
    LET slid == IF st.start > 0 /\ (st.end = st.bufLen \/ st.start > st.bufLen \div 2)
                THEN [st EXCEPT !.start = 0, !.end = st.end - st.start]
                ELSE st
        grown == Min(IF slid.bufLen = 0 THEN startBufSize ELSE 2 * slid.bufLen, maxTokenSize)
    IN IF slid.end # slid.bufLen THEN slid
       ELSE IF slid.bufLen >= maxTokenSize THEN [slid EXCEPT !.err = "token too long"]
       ELSE [slid EXCEPT !.start = 0, !.end = slid.end - slid.start, !.bufLen = grown]

Scanned(ok, token, st) == [ok |-> ok, token |-> token, st |-> st]

RECURSIVE Scan(_, _)
\* Scanner.Scan: split what is buffered; without a token, stop at a read
\* error or a full buffer at its limit, else read more and try again.
Scan(src, st) ==
    LET data == SubSeq(src.bytes, st.off + 1, st.off + (st.end - st.start))
        try == st.end > st.start \/ st.err # ""
        tk == IF try THEN split(data, st.err # "") ELSE Token(0, FALSE, "")
        st1 == [st EXCEPT !.start = st.start + tk.advance, !.off = st.off + tk.advance]
        room == MakeRoom(st1)
    IN IF tk.has THEN Scanned(TRUE, tk.token, st1)
       ELSE IF st1.err # ""
            THEN Scanned(FALSE, "", [st1 EXCEPT !.start = 0, !.end = 0,
                                                !.off = st1.off + (st1.end - st1.start)])
       ELSE IF room.err # "" THEN Scanned(FALSE, "", room)
       ELSE Scan(src, ReadInto(src, room))

\* NextChunk: the chunk and a nil error, or nil and io.EOF when Scan returns
\* false.
NextChunk(src, st) ==
    LET sc == Scan(src, st)
    IN [chunk |-> IF sc.ok THEN sc.token ELSE "",
        err |-> IF sc.ok THEN "" ELSE "EOF",
        st |-> sc.st]

\* What Next returns: the record (nil on an error), its kind, the error,
\* and with them the chunk it was decoded from and the scanner afterwards.
NextResult(record, kind, err, chunk, st) ==
    [record |-> record, kind |-> kind, err |-> err, chunk |-> chunk, st |-> st]

\* Branches of Next that return every decoded chunk as a plain record.
NextLoadedPlain(nc, loaded) ==
    IF loaded.outcome # "ok"
    THEN NextResult(NilValue, "", loaded.err, nc.chunk, nc.st)
    ELSE NextResult(Value("warc.WARCRecord", FALSE, loaded.rec),
                    loaded.rec.Type, "", nc.chunk, nc.st)

\* The second decoding of a chunk in Next, as a MetadataRecord or as a
\* WarcInfoRecord: record and kind are set when it succeeds.
NextKind(type, kind, nc) ==
    Bind(UnmarshalWARCRecord(type, nc.chunk),
         LAMBDA r : IF r.outcome # "ok"
                    THEN NextResult(NilValue, "", r.err, nc.chunk, nc.st)
                    ELSE NextResult(Value(type, FALSE, r.rec), kind, "",
                                    nc.chunk, nc.st))

\* The branches of (*WARC).Next on loadedRecord, the chunk decoded as a
\* WARCRecord: it is decoded again as a MetadataRecord or a WarcInfoRecord
\* when its Type says so.
NextLoaded(nc, loaded) ==
    IF loaded.outcome # "ok"
    THEN NextResult(NilValue, "", loaded.err, nc.chunk, nc.st)
    ELSE IF loaded.rec.Type = "metadata"
    THEN NextKind("warc.MetadataRecord", "metadata", nc)
    ELSE IF loaded.rec.Type = "warcinfo"
    THEN NextKind("warc.WarcInfoRecord", "warcinfo", nc)
    ELSE NextResult(Value("warc.WARCRecord", FALSE, loaded.rec),
                    loaded.rec.Type, "", nc.chunk, nc.st)

\* The body of (*WARC).Next after its call of NextChunk.
NextOf(nc) ==
    IF nc.err # "" THEN NextResult(NilValue, "", nc.err, "", nc.st)
    ELSE Bind(UnmarshalRecord("warc", nc.chunk, ZeroWARCRecord),
              LAMBDA loaded : NextLoaded(nc, loaded))

\* (*WARC).Next: NextChunk is called once and its result decoded.
Next(src, st) == Bind(NextChunk(src, st), NextOf)

(***************************************************************************)
(* Package cdx: CDXFile, Unmarshal and Marshal.  A column code (CDXField)  *)
(* is a one-byte string, a CDXFormat a sequence of codes.                  *)
(***************************************************************************)

CDXTag(name, code, kind) == [name |-> name, code |-> code, kind |-> kind]

\* The tagged fields of CDXRecord, in declaration order.
CDXRecordTags == <<
    CDXTag("CanonizedURL", "A", "string"),
    CDXTag("NewsGroup", "B", "string"),
    CDXTag("RulespaceCategory", "C", "string"),
    CDXTag("CanonizedFrame", "F", "string"),
    CDXTag("CanonizedHost", "H", "string"),
    CDXTag("CanonizedImage", "I", "string"),
    CDXTag("CanonizedJump", "J", "string"),
    CDXTag("CanonizedLink", "L", "string"),
    CDXTag("MassagedURL", "N", "string"),
    CDXTag("CanonizedPath", "P", "string"),
    CDXTag("CanonizedRedirect", "R", "string"),
    CDXTag("OriginalURL", "a", "string"),
    CDXTag("OriginalHost", "h", "string"),
    CDXTag("OriginalPath", "p", "string"),
    CDXTag("Date", "b", "time"),
    CDXTag("IP", "e", "string"),
    CDXTag("Language", "Q", "string"),
    CDXTag("Port", "o", "int"),
    CDXTag("Title", "t", "string"),
    CDXTag("MetaTags", "M", "string"),
    CDXTag("OldChecksum", "c", "string"),
    CDXTag("NewChecksum", "k", "string"),
    CDXTag("CompressedSize", "S", "int"),
    CDXTag("ArcDocumentLength", "n", "int"),
    CDXTag("CompressedDatOffset", "D", "int"),
    CDXTag("UncompressedDatOffset", "d", "int"),
    CDXTag("CompressedArcOffset", "V", "int"),
    CDXTag("UncompressedArcOffset", "v", "int"),
    CDXTag("Frame", "f", "string"),
    CDXTag("Image", "i", "string"),
    CDXTag("JumpPoint", "j", "string"),
    CDXTag("Link", "l", "string"),
    CDXTag("URLsInHref", "x", "string"),
    CDXTag("URLsInSrc", "y", "string"),
    CDXTag("URLsInScript", "z", "string"),
    CDXTag("MIMEType", "m", "string"),
    CDXTag("StatusCode", "s", "int"),
    CDXTag("Redirect", "r", "string"),
    CDXTag("Filename", "g", "string"),
    CDXTag("FBIS", "K", "string"),
    CDXTag("Uniqueness", "U", "string") >>

\* CDXRecord{}
ZeroCDXRecord ==
    [n \in {CDXRecordTags[i].name : i \in 1..Len(CDXRecordTags)}
        |-> ZeroOf(CDXRecordTags[CHOOSE i \in 1..Len(CDXRecordTags) :
                                    CDXRecordTags[i].name = n].kind)]

\* The places of the fields whose cdx tag is the code (at most one).
TagIndexes(code) == {i \in 1..Len(CDXRecordTags) : CDXRecordTags[i].code = code}

CDX9 == <<"N", "b", "a", "m", "s", "k", "r", "V", "g">>

CDX11 == <<"N", "b", "a", "m", "s", "k", "r", "M", "S", "V", "g">>

RECURSIVE FirstSpaceIn(_, _, _)
\* The least index in lo..hi at which s holds white space, or 0 when there
\* is none (the range is halved, as in FirstIn).
FirstSpaceIn(s, lo, hi) ==
    IF lo > hi THEN 0
    ELSE IF lo = hi THEN (IF Ch(s, lo) \in Spaces THEN lo ELSE 0)
    ELSE LET mid == (lo + hi) \div 2
             l == FirstSpaceIn(s, lo, mid)
         IN IF l # 0 THEN l ELSE FirstSpaceIn(s, mid + 1, hi)

\* The end of the run of bytes that are not white space and that starts at i.
FieldEnd(s, i) ==
    LET k == FirstSpaceIn(s, i, Len(s))
    IN IF k = 0 THEN Len(s) ELSE k - 1

RECURSIVE Fields(_)
\* strings.Fields
Fields(s) ==
    LET t == TrimLeft(s)
        e == FieldEnd(t, 1)
    IN IF t = "" THEN << >>
       ELSE <<SubSeq(t, 1, e)>> \o Fields(From(t, e + 1))

\* (CDXFormat).String: "CDX" and the codes, joined by spaces.
FormatString(format) == Join(<<"CDX">> \o format, " ")

\* parseFormat: the codes converted to one string and cut at white space;
\* the first bytes of the parts after the first one, nil when there is only
\* one part.
parseFormat(format) ==
    LET parts == Fields(Join(format, ""))
    IN IF Len(parts) > 1 THEN [i \in 1..(Len(parts) - 1) |-> Ch(parts[i + 1], 1)]
       ELSE << >>

CDXHeader(format, fields, delimiter) ==
    [Format |-> format, Fields |-> fields, Delimiter |-> delimiter]

CDXFile(header, records) == [Header |-> header, Records |-> records]

\* CDXFile{}: no format, the zero rune as delimiter, no records.
ZeroCDXFile == CDXFile(CDXHeader(<< >>, << >>, NUL), << >>)

NewCDXFile(format) == CDXFile(CDXHeader(format, parseFormat(format), " "), << >>)

\* bufio's dropCR
dropCR(text) ==
    IF Len(text) > 0 /\ Ch(text, Len(text)) = "\r"
    THEN SubSeq(text, 1, Len(text) - 1) ELSE text

RECURSIVE ScanLines(_, _)
\* The lines a bufio.Scanner with the default split function returns for
\* the data after offset pos, and the error it stops with: a line is the
\* bytes up to a "\n" or to the end of the data, without a final "\r"; a
\* line of maxTokenSize bytes or more does not fit the buffer and stops the
\* scanner with ErrTooLong.
ScanLines(data, pos) ==
    LET k == FirstIn(data, "\n", pos + 1, Len(data))
        stop == IF k = 0 THEN Len(data) ELSE k - 1
        rest == IF k = 0 THEN [lines |-> << >>, err |-> ""] ELSE ScanLines(data, k)
    IN IF pos >= Len(data) THEN [lines |-> << >>, err |-> ""]
       ELSE IF stop - pos >= maxTokenSize THEN [lines |-> << >>, err |-> "token too long"]
       ELSE [lines |-> <<dropCR(SubSeq(data, pos + 1, stop))>> \o rest.lines,
             err |-> rest.err]

\* time.Parse(CDXTimestampFormat, s) with the layout "20060102150405":
\* fourteen digits, and after them an optional fraction of a second, which
\* Parse accepts although the layout has none.  The time is in UTC.
ParseCDXTime(s) ==
    LET bad == [ok |-> FALSE, t |-> ZeroTime]
        rest == From(s, 15)
        frac == From(rest, 2)
        y == DigitsVal(SubSeq(s, 1, 4))
        mo == DigitsVal(SubSeq(s, 5, 6))
        d == DigitsVal(SubSeq(s, 7, 8))
        h == DigitsVal(SubSeq(s, 9, 10))
        mi == DigitsVal(SubSeq(s, 11, 12))
        sec == DigitsVal(SubSeq(s, 13, 14))
    IN IF Len(s) < 14 \/ ~AllDigits(SubSeq(s, 1, 14)) THEN bad
       ELSE IF rest # "" /\ ~(Ch(rest, 1) \in {".", ","} /\ Len(frac) >= 1
                              /\ AllDigits(frac))
            THEN bad
       ELSE IF ~(mo \in 1..12 /\ d \in 1..DaysIn(mo, y) /\ h < 24 /\ mi < 60 /\ sec < 60)
            THEN bad
       ELSE [ok |-> TRUE,
             t |-> MkTime(y, mo, d, h, mi, sec, FracNanos(frac, 100000000), "Z")]

\* t.Format(CDXTimestampFormat)
FormatCDXTime(t) ==
    Pad4(t.year) \o Pad2(t.month) \o Pad2(t.day) \o
    Pad2(t.hour) \o Pad2(t.min) \o Pad2(t.sec)

\* setField of package cdx: the record with the field tagged by the code set
\* from the value; the error of a value that does not parse, or of a code
\* that no field is tagged with.
cdxSetField(record, field, value) ==
    LET is == TagIndexes(field)
        t == CDXRecordTags[CHOOSE i \in is : TRUE]
        n == ParseInt(value)
        tm == ParseCDXTime(value)
    IN IF is = {} THEN [err |-> "unknown field", record |-> record]
       ELSE CASE t.kind = "string" ->
                    [err |-> "", record |-> [record EXCEPT ![t.name] = value]]
              [] t.kind = "int" ->
                    IF n.ok THEN [err |-> "", record |-> [record EXCEPT ![t.name] = n.val]]
                    ELSE [err |-> "invalid syntax", record |-> record]
              [] t.kind = "time" ->
                    IF tm.ok THEN [err |-> "", record |-> [record EXCEPT ![t.name] = tm.t]]
                    ELSE [err |-> "cannot parse", record |-> record]

RECURSIVE RowFields(_, _, _, _)
\* The loop over the format's codes for one row, from code i on.
RowFields(record, format, parts, i) ==
    IF i > Len(format) THEN [err |-> "", record |-> record]
    ELSE LET r == cdxSetField(record, format[i], parts[i])
         IN IF r.err # "" THEN r ELSE RowFields(r.record, format, parts, i + 1)

\* A length check that lets a row with more fields than columns through.
RowLengthAtLeast(parts, format) == Len(parts) >= Len(format)

\* The check of a row's length: len(parts) != len(format) is an error.
RowLength(parts, format) == Len(parts) = Len(format)

RECURSIVE Rows(_, _, _, _)
\* The loop over the lines after the header, from line i on: an empty line
\* is skipped, any other one yields a record or an error.
Rows(lines, i, format, records) ==
    IF i > Len(lines) THEN [err |-> "", records |-> records]
    ELSE IF lines[i] = "" THEN Rows(lines, i + 1, format, records)
    ELSE LET parts == Fields(lines[i])
             rf == RowFields(ZeroCDXRecord, format, parts, 1)
         IN IF ~RowLength(parts, format)
            THEN [err |-> "invalid record length", records |-> records]
            ELSE IF rf.err # ""
            THEN [err |-> "error parsing field: " \o rf.err, records |-> records]
            ELSE Rows(lines, i + 1, format, Append(records, rf.record))

\* The format of a header line: the first byte of every field after the
\* first one.
HeaderFormat(header) ==
    LET fields == Fields(header)
    IN [i \in 1..(Len(fields) - 1) |-> Ch(fields[i + 1], 1)]

\* Unmarshal of package cdx into dst, a CDXFile passed by pointer or by
\* value: the outcome, and the destination after the call.
cdxUnmarshal(data, dst) ==
    LET sc == ScanLines(data, 0)
        header == sc.lines[1]
        format == HeaderFormat(header)
        rows == Rows(Tail(sc.lines), 1, format, << >>)
        cdxFile == [NewCDXFile(format) EXCEPT !.Records = rows.records]
    IN IF Len(sc.lines) = 0 THEN Result("error", "empty CDX file", dst.val)
       ELSE IF ~HasPrefix(header, "CDX") THEN Result("error", "invalid CDX header", dst.val)
       ELSE IF rows.err # "" THEN Result("error", rows.err, dst.val)
       ELSE IF ~dst.ptr THEN Result("error", "v must be a pointer", dst.val)
       ELSE IF sc.err # "" THEN Result("error", sc.err, cdxFile)
       ELSE Result("ok", "", cdxFile)

\* strconv.FormatInt(n, 10)
FormatInt(n) == IF n < 0 THEN "-" \o Itoa(0 - n) ELSE Itoa(n)

\* formatField: "-" for an empty string, a zero integer and the zero time.
formatField(kind, val) ==
    CASE kind = "string" -> IF val = "" THEN "-" ELSE val
      [] kind = "int" -> IF val = 0 THEN "-" ELSE FormatInt(val)
      [] kind = "time" -> IF IsZeroTime(val) THEN "-" ELSE FormatCDXTime(val)

\* joinFields
joinFields(fields, delimiter) == Join(fields, delimiter)

\* marshalRecord: the value of the field tagged with each code, an empty
\* string for a code no field is tagged with, joined by the delimiter.
marshalRecord(record, fields, delimiter) ==
    joinFields([i \in 1..Len(fields) |->
                   IF TagIndexes(fields[i]) = {} THEN ""
                   ELSE LET t == CDXRecordTags[CHOOSE j \in TagIndexes(fields[i]) : TRUE]
                        IN formatField(t.kind, record[t.name])],
               delimiter)

RECURSIVE RecordLines(_, _, _)
RecordLines(records, format, delimiter) ==
    IF Len(records) = 0 THEN ""
    ELSE marshalRecord(Head(records), format, delimiter) \o "\n"
         \o RecordLines(Tail(records), format, delimiter)

\* Marshal of package cdx.
cdxMarshal(v) ==
    IF v.type = "nil" THEN MResult("error", "input is nil", "")
    ELSE IF ~(v.type = "CDXFile" /\ v.ptr)
    THEN MResult("error", "input must be a pointer to CDXFile", "")
    ELSE MResult("ok", "",
            (IF Len(v.val.Header.Format) > 0
             THEN FormatString(v.val.Header.Format) \o "\n" ELSE "")
            \o RecordLines(v.val.Records, v.val.Header.Format, v.val.Header.Delimiter))

(***************************************************************************)
(* The inputs of the decoding specification: byte slices put together from *)
(* a version line, header lines, the blank line and a payload.             *)
(***************************************************************************)

RECURSIVE JoinLines(_, _)
\* Every line followed by the line terminator eol.
JoinLines(lines, eol) ==
    IF Len(lines) = 0 THEN "" ELSE Head(lines) \o eol \o JoinLines(Tail(lines), eol)

Build(versionLine, eol, lines, blank, payload) ==
    versionLine \o eol \o JoinLines(lines, eol) \o (IF blank THEN eol ELSE "") \o payload

\* The length of the long payloads: more than one read buffer.
LongLen == 5000

VersionLines == {"WARC/1.0", "WARC/1.1", "WARC/2.0", "1.0", "WARC/1.0 ", "WARC/", "warc/1.0"}

TypeLines == {<< >>, <<"WARC-Type: response">>}

DateLines == {<< >>, <<"WARC-Date: 2024-01-01T10:00:00Z">>, <<"WARC-Date: none">>}

IDLines == {<< >>, <<"WARC-Record-ID: <urn:uuid:abc>">>}

LengthLines == {<< >>, <<"Content-Length: 13">>, <<"Content-Length: 0">>,
                <<"Content-Length: abc">>, <<"Content-Length: -1">>}

ExtraLines == {<< >>, <<"Content-Type: text/plain">>, <<"Content-Length 13">>,
               <<"WARC-Segment-Number: 2">>, <<"WARC-Segment-Number: two">>,
               <<"WARC-Segment-Total-Length: 99">>, <<"WARC-Segment-Total-Length: x">>,
               <<"WARC-Concurrent-To: <urn:uuid:a>, <urn:uuid:b>">>,
               <<"WARC-Refers-To-Date: yesterday">>, <<"  ">>}

Payloads == {"", "Hello", "Hello, World!"}

GoodLines(length) ==
    <<"WARC-Type: response", "WARC-Date: 2024-01-01T10:00:00Z",
      "WARC-Record-ID: <urn:uuid:abc>", "Content-Length: " \o length,
      "Content-Type: text/plain">>

\* Well-formed headers under every version line and line terminator, with
\* and without the blank line.
VersionInputs ==
    {Build(v, eol, GoodLines("5"), blank, "Hello") :
        v \in VersionLines, eol \in {"\r\n", "\n"}, blank \in BOOLEAN}
    \cup {"", "WARC/1.0"}

\* Header blocks with every combination of present, absent and ill-formed
\* lines, over payloads shorter than, equal to and longer than declared.
HeaderInputs ==
    {Build("WARC/1.0", "\r\n", ty \o da \o x \o id \o le, TRUE, p) :
        ty \in TypeLines, da \in DateLines, id \in IDLines, le \in LengthLines,
        x \in ExtraLines, p \in Payloads}

\* Records around and beyond the size of the read buffer.
LongInputs ==
    {Build("WARC/1.1", "\r\n", GoodLines(Itoa(n)), TRUE, Rep("x", m)) :
        n \in {LongLen, defaultBufSize}, m \in {LongLen, defaultBufSize, 100}}

Inputs == VersionInputs \cup HeaderInputs \cup LongInputs

\* A destination that already holds a record.
UsedWARCRecord ==
    [ZeroWARCRecord EXCEPT !.Version = WARCVariant1_1,
                           !.RecordID = "<urn:uuid:old>",
                           !.ContentLength = 7,
                           !.Type = "request",
                           !.ConcurrentTo = <<"<urn:uuid:c>">>,
                           !.SegmentTotalLength = 7,
                           !.Content = "old one"]

Dsts == {ZeroWARCRecord, UsedWARCRecord}

(***************************************************************************)
(* The decoding specification: one call on one input.                      *)
(***************************************************************************)

DInit ==
    /\ dData \in Inputs
    /\ dDst \in Dsts
    /\ dOp = "idle"
    /\ dRes = Result("none", "", dDst)
    /\ mIn = NilValue
    /\ mOp = "off"
    /\ mOut = MResult("none", "", "")
    /\ mBack = Result("none", "", ZeroWARCRecord)
    /\ sRecs = << >>
    /\ sSrc = Source("", 1, -1)
    /\ sScan = NewScanner
    /\ sChunks = << >>
    /\ sLast = [chunk |-> "", err |-> "none", eofs |-> 0]
    /\ nRets = << >>

\* Unmarshal(dData, &dst) of the warc package.
CallUnmarshalWarc ==
    /\ dOp = "idle"
    /\ dOp' = "Unmarshal/warc"
    /\ dRes' = UnmarshalRecord("warc", dData, dDst)
    /\ UNCHANGED <<dData, dDst>>
    /\ UNCHANGED mVars
    /\ UNCHANGED sVars

\* Unmarshal(dData, &dst) of the root package.
CallUnmarshalGwarc ==
    /\ dOp = "idle"
    /\ dOp' = "Unmarshal/gwarc"
    /\ dRes' = UnmarshalRecord("gwarc", dData, dDst)
    /\ UNCHANGED <<dData, dDst>>
    /\ UNCHANGED mVars
    /\ UNCHANGED sVars

\* Valid(dData)
CallValid ==
    /\ dOp = "idle"
    /\ dOp' = "Valid"
    /\ dRes' = Result(Valid(dData).outcome, Valid(dData).err, dDst)
    /\ UNCHANGED <<dData, dDst>>
    /\ UNCHANGED mVars
    /\ UNCHANGED sVars

DNext == CallUnmarshalWarc \/ CallUnmarshalGwarc \/ CallValid

SpecDecode == DInit /\ [][DNext]_vars

(***************************************************************************)
(* The encoding specification: Marshal of one value, then Unmarshal of the *)
(* bytes it returned into a fresh record.                                  *)
(***************************************************************************)

SomeDate == MkTime(2024, 1, 1, 10, 0, 0, 0, "Z")

\* A valid record: the required fields and a payload.
BaseRecord ==
    [ZeroWARCRecord EXCEPT !.Version = WARCVariant1_0,
                           !.RecordID = "<urn:uuid:abc>",
                           !.Date = SomeDate,
                           !.Type = "response",
                           !.Content = "Hello, World!"]

\* Changes of one field of a record: [field, value].
RequiredEdits ==
    {<<"Version", WARCVariant1_1>>, <<"Version", "2.0">>, <<"Version", "">>,
     <<"RecordID", "">>, <<"Type", "">>,
     <<"Date", ZeroTime>>, <<"Date", MkTime(2024, 1, 1, 10, 0, 0, 500000000, "Z")>>,
     <<"Content", "">>, <<"ContentLength", 13>>, <<"ContentLength", 7>>}

OptionalEdits ==
    {<<"ContentType", "text/plain">>,
     <<"ConcurrentTo", <<"<urn:uuid:c1>", "<urn:uuid:c2>">> >>,
     <<"SegmentNumber", 2>>,
     <<"SegmentTotalLength", 99>>,
     <<"RefersToDate", SomeDate>>}

Edit(rec, e) == [rec EXCEPT ![e[1]] = e[2]]

\* The base record, with one field changed, and with two fields changed.
WARCRecords ==
    {BaseRecord}
    \cup {Edit(BaseRecord, e) : e \in RequiredEdits \cup OptionalEdits}
    \cup {Edit(Edit(BaseRecord, e), f) : e \in RequiredEdits, f \in RequiredEdits}

BaseWarcInfo ==
    [Version |-> WARCVariant1_0, Operator |-> "op", Software |-> "gwarc",
     Robots |-> "obey", Hostname |-> "host", IP |-> "10.0.0.1",
     UserAgent |-> "ua", From |-> "me@example.com"]

BaseMetadata ==
    [Version |-> WARCVariant1_0, Via |-> "http://example.com/",
     HopsFromSeed |-> "LL", FetchTimeMs |-> 12]


MInputs ==
    {Value("WARCRecord", ptr, r) : ptr \in BOOLEAN, r \in WARCRecords}
    \cup {Value("WarcInfoRecord", TRUE, BaseWarcInfo),
          Value("WarcInfoRecord", TRUE, [BaseWarcInfo EXCEPT !.Version = ""]),
          Value("WarcInfoRecord", TRUE, [BaseWarcInfo EXCEPT !.From = ""]),
          Value("WarcInfoRecord", FALSE, [BaseWarcInfo EXCEPT !.Operator = ""])}
    \cup {Value("MetadataRecord", ptr, m) : ptr \in BOOLEAN,
            m \in {BaseMetadata, [BaseMetadata EXCEPT !.Version = ""],
                   [BaseMetadata EXCEPT !.Via = ""],
                   [BaseMetadata EXCEPT !.HopsFromSeed = ""],
                   [BaseMetadata EXCEPT !.FetchTimeMs = 0]}}
    \cup {NilValue, Value("string", FALSE, [str |-> "invalid"])}

MInit ==
    /\ mIn \in MInputs
    /\ mOp = "idle"
    /\ mOut = MResult("none", "", "")
    /\ mBack = Result("none", "", ZeroWARCRecord)
    /\ sRecs = << >>
    /\ sSrc = Source("", 1, -1)
    /\ sScan = NewScanner
    /\ sChunks = << >>
    /\ sLast = [chunk |-> "", err |-> "none", eofs |-> 0]
    /\ nRets = << >>
    /\ dData = ""
    /\ dDst = ZeroWARCRecord
    /\ dOp = "off"
    /\ dRes = Result("none", "", ZeroWARCRecord)

\* Marshal(mIn)
CallMarshal ==
    /\ mOp = "idle"
    /\ \E order \in Orders(mIn) : mOut' = Marshal(mIn, order)
    /\ mOp' = "marshalled"
    /\ UNCHANGED <<mIn, mBack>>
    /\ UNCHANGED dVars
    /\ UNCHANGED sVars

\* var back WARCRecord; Unmarshal(bytes, &back), of the warc package.
CallUnmarshalBackWarc ==
    /\ mOp = "marshalled"
    /\ mIn.type = "WARCRecord"
    /\ mOut.outcome = "ok"
    /\ mBack' = UnmarshalRecord("warc", mOut.bytes, ZeroWARCRecord)
    /\ mOp' = "back/warc"
    /\ UNCHANGED <<mIn, mOut>>
    /\ UNCHANGED dVars
    /\ UNCHANGED sVars

\* var back WARCRecord; Unmarshal(bytes, &back), of the root package.
CallUnmarshalBackGwarc ==
    /\ mOp = "marshalled"
    /\ mIn.type = "WARCRecord"
    /\ mOut.outcome = "ok"
    /\ mBack' = UnmarshalRecord("gwarc", mOut.bytes, ZeroWARCRecord)
    /\ mOp' = "back/gwarc"
    /\ UNCHANGED <<mIn, mOut>>
    /\ UNCHANGED dVars
    /\ UNCHANGED sVars

MNext == CallMarshal \/ CallUnmarshalBackWarc \/ CallUnmarshalBackGwarc

SpecMarshal == MInit /\ [][MNext]_vars

(***************************************************************************)
(* The segmenting specification: NextChunk called again and again on one   *)
(* source.                                                                 *)
(***************************************************************************)

\* A well-formed record: headers declaring the payload's length, the blank
\* line, the payload.
RecordOf(lines, payload) ==
    Build("WARC/1.0", "\r\n",
          <<"WARC-Type: resource", "WARC-Date: 2024-01-01T10:00:00Z",
            "WARC-Record-ID: <urn:uuid:abc>"
           >> \o lines \o <<"Content-Length: " \o Itoa(Len(payload))>>,
          TRUE, payload)

\* The length of a payload that does not fit the scanner's largest buffer.
HugeLen == 70000

SmallRecords ==
    {RecordOf(<< >>, "Hello, World!"),
     RecordOf(<< >>, ""),
     RecordOf(<< >>, "see WARC/1.0 section 5\r\n"),
     RecordOf(<<"WARC-Target-URI: http://example.com/WARC/">>, "x")}

RECURSIVE Concat(_)
Concat(recs) == IF Len(recs) = 0 THEN "" ELSE Head(recs) \o Concat(Tail(recs))

\* The largest number of records in a source.
MaxRecords == 3

RecordLists ==
    UNION {[1..n -> SmallRecords] : n \in 0..MaxRecords}
    \cup {<<RecordOf(<< >>, Rep("x", n)), RecordOf(<< >>, "Hello, World!")>> :
            n \in {startBufSize, HugeLen}}

\* The sizes of the reads of the sources: a few bytes at a time, or all
\* that fits.
ReadSizes == {7, maxTokenSize}

\* The largest number of NextChunk calls that return io.EOF.
MaxEOFs == 2

SInit ==
    /\ sRecs \in RecordLists
    /\ \E junk \in {"", "junk\r\n"}, chunk \in ReadSizes, failAt \in {-1, 100} :
          /\ Len(junk) > 0 => Len(sRecs) <= 1
          /\ failAt >= 0 => Len(sRecs) = 2
          /\ Len(Concat(sRecs)) > startBufSize => (chunk = maxTokenSize /\ failAt < 0)
          /\ sSrc = Source(junk \o Concat(sRecs), chunk, failAt)
    /\ sScan = NewScanner
    /\ sChunks = << >>
    /\ sLast = [chunk |-> "", err |-> "none", eofs |-> 0]
    /\ nRets = << >>
    /\ dData = ""
    /\ dDst = ZeroWARCRecord
    /\ dOp = "off"
    /\ dRes = Result("none", "", ZeroWARCRecord)
    /\ mIn = NilValue
    /\ mOp = "off"
    /\ mOut = MResult("none", "", "")
    /\ mBack = Result("none", "", ZeroWARCRecord)

\* w.NextChunk()
CallNextChunk ==
    /\ sLast.eofs < MaxEOFs
    /\ LET r == NextChunk(sSrc, sScan)
       IN /\ sScan' = r.st
          /\ sChunks' = IF r.err = "" THEN Append(sChunks, r.chunk) ELSE sChunks
          /\ sLast' = [chunk |-> r.chunk, err |-> r.err,
                       eofs |-> sLast.eofs + (IF r.err = "EOF" THEN 1 ELSE 0)]
    /\ UNCHANGED <<sRecs, sSrc, nRets>>
    /\ UNCHANGED dVars
    /\ UNCHANGED mVars

SNext == CallNextChunk

SpecSegment == SInit /\ [][SNext]_vars

(***************************************************************************)
(* The reading specification: Next called again and again on one source    *)
(* of records of several types.                                            *)
(***************************************************************************)

\* A well-formed record of the given WARC-Type, or with no WARC-Type line
\* when the type is empty.
StreamRecord(type, payload) ==
    Build("WARC/1.0", "\r\n",
          (IF type = "" THEN << >> ELSE <<"WARC-Type: " \o type>>)
          \o <<"WARC-Date: 2024-01-01T10:00:00Z",
               "WARC-Record-ID: <urn:uuid:abc>",
               "Content-Length: " \o Itoa(Len(payload))>>,
          TRUE, payload)

StreamRecords ==
    {StreamRecord("warcinfo", "operator: op\nsoftware: gwarc\n"),
     StreamRecord("metadata", "via: http://example.com/\nfetchTimeMs: 12\n"),
     StreamRecord("metadata", "fetchTimeMs: soon\n"),
     StreamRecord("response", "Hello, World!"),
     StreamRecord("Metadata", "via: x\n"),
     StreamRecord("resource", "see WARC/1.0 section 5\r\n"),
     StreamRecord("", "via: y\n")}

\* The largest number of records in a source Next reads.
MaxStream == 2

StreamLists == UNION {[1..n -> StreamRecords] : n \in 0..MaxStream}

NInit ==
    /\ sRecs \in StreamLists
    /\ \E chunk \in ReadSizes : sSrc = Source(Concat(sRecs), chunk, -1)
    /\ sScan = NewScanner
    /\ sChunks = << >>
    /\ sLast = [chunk |-> "", err |-> "none", eofs |-> 0]
    /\ nRets = << >>
    /\ dData = ""
    /\ dDst = ZeroWARCRecord
    /\ dOp = "off"
    /\ dRes = Result("none", "", ZeroWARCRecord)
    /\ mIn = NilValue
    /\ mOp = "off"
    /\ mOut = MResult("none", "", "")
    /\ mBack = Result("none", "", ZeroWARCRecord)

\* w.Next()
CallNext ==
    /\ sLast.eofs < MaxEOFs
    /\ \E r \in {Next(sSrc, sScan)} :
          /\ sScan' = r.st
          /\ sChunks' = IF r.chunk # "" THEN Append(sChunks, r.chunk) ELSE sChunks
          /\ sLast' = [chunk |-> r.chunk, err |-> r.err,
                       eofs |-> sLast.eofs + (IF r.err = "EOF" THEN 1 ELSE 0)]
          /\ nRets' = Append(nRets, [record |-> r.record, kind |-> r.kind,
                                     err |-> r.err, chunk |-> r.chunk])
    /\ UNCHANGED <<sRecs, sSrc>>
    /\ UNCHANGED dVars
    /\ UNCHANGED mVars

NNext == CallNext

SpecNext == NInit /\ [][NNext]_vars

(***************************************************************************)
(* The kinds specification: MarshalWARCRecord of one warcinfo or metadata  *)
(* record, and UnmarshalWARCRecord of one chunk into a zero record of a    *)
(* kind.                                                                   *)
(***************************************************************************)

\* A well-formed record of the given WARC-Type.
TypedRecord(type, payload) ==
    Build("WARC/1.0", "\r\n",
          <<"WARC-Type: " \o type, "WARC-Date: 2024-01-01T10:00:00Z",
            "WARC-Record-ID: <urn:uuid:abc>",
            "Content-Length: " \o Itoa(Len(payload))>>,
          TRUE, payload)

\* A warcinfo record of the warc package with every extra field set.
BaseInfoKind ==
    [WithEmbedded(ZeroKind("warc.WarcInfoRecord"), BaseRecord)
        EXCEPT !.Type = "warcinfo", !.Content = "",
               !.Operator = "op", !.Software = "gwarc", !.Robots = "obey",
               !.Hostname = "host", !.IP = "10.0.0.1", !.UserAgent = "ua",
               !.From = "me@example.com"]

\* A metadata record of the warc package with every extra field set.
BaseMetaKind ==
    [WithEmbedded(ZeroKind("warc.MetadataRecord"), BaseRecord)
        EXCEPT !.Type = "metadata", !.Content = "",
               !.Via = "http://example.com/", !.HopsFromSeed = "LL",
               !.FetchTimeMs = 12]

\* The records MarshalWARCRecord is called on.
KInputs ==
    {Value("warc.WarcInfoRecord", TRUE, w) :
        w \in {BaseInfoKind,
               [BaseInfoKind EXCEPT !.Content = "note\n"],
               [BaseInfoKind EXCEPT !.IP = "", !.From = ""],
               [BaseInfoKind EXCEPT !.Version = ""],
               WithEmbedded(ZeroKind("warc.WarcInfoRecord"),
                            [BaseRecord EXCEPT !.Type = "warcinfo"])}}
    \cup {Value("warc.MetadataRecord", TRUE, m) :
        m \in {BaseMetaKind,
               [BaseMetaKind EXCEPT !.Content = "note\n"],
               [BaseMetaKind EXCEPT !.FetchTimeMs = 0],
               WithEmbedded(ZeroKind("warc.MetadataRecord"),
                            [BaseRecord EXCEPT !.Type = "metadata"])}}

InfoPayloads ==
    {"operator: op\nsoftware: gwarc\nrobots: obey\nhostname: host\nip: 10.0.0.1\n"
        \o "http-header-user-agent: ua\nhttp-header-from: me@example.com\n",
     "operator: op\r\nsoftware: gwarc\r\nno colon here\r\nrobots: obey\r\nhostname: host\r\n",
     "ip: 10.0.0.1\n",
     "hostname: a\n\nhostname: b:c\n",
     ""}

MetaPayloads ==
    {"via: http://example.com/\nhopsFromSeed: LL\nfetchTimeMs: 12\n",
     "via: http://example.com/\nno colon here\nhopsFromSeed: LL\nfetchTimeMs: 12",
     "fetchTimeMs: soon\nvia: http://example.com/\n",
     "hopsFromSeed: P\n"}

\* The chunks UnmarshalWARCRecord is called on.
KData ==
    {TypedRecord("warcinfo", pl) : pl \in InfoPayloads}
    \cup {TypedRecord("metadata", pl) : pl \in MetaPayloads}
    \cup {"WARC/2.0\r\n\r\n", "WARC/1.0\r\nContent-Length: 30\r\n\r\nvia: x\n"}

\* The type of the record a destination is.
KindOf(dst) ==
    IF "Operator" \in DOMAIN dst THEN "warc.WarcInfoRecord" ELSE "warc.MetadataRecord"

KInit ==
    /\ mIn \in KInputs
    /\ mOp = "idle"
    /\ mOut = MResult("none", "", "")
    /\ mBack = Result("none", "", ZeroWARCRecord)
    /\ dData \in KData
    /\ dDst \in {ZeroKind(t) : t \in KindTypes}
    /\ dOp = "idle"
    /\ dRes = Result("none", "", ZeroWARCRecord)
    /\ sRecs = << >>
    /\ sSrc = Source("", 1, -1)
    /\ sScan = NewScanner
    /\ sChunks = << >>
    /\ sLast = [chunk |-> "", err |-> "none", eofs |-> 0]
    /\ nRets = << >>

\* mIn.MarshalWARCRecord()
CallMarshalWARCRecord ==
    /\ mOp = "idle"
    /\ \E order \in KindOrders(mIn) : mOut' = MarshalWARCRecord(mIn, order)
    /\ mOp' = "marshalled"
    /\ UNCHANGED <<mIn, mBack>>
    /\ UNCHANGED dVars
    /\ UNCHANGED sVars

\* var w WarcInfoRecord (or MetadataRecord); w.UnmarshalWARCRecord(dData)
CallUnmarshalWARCRecord ==
    /\ dOp = "idle"
    /\ dRes' = UnmarshalWARCRecord(KindOf(dDst), dData)
    /\ dOp' = "UnmarshalWARCRecord"
    /\ UNCHANGED <<dData, dDst>>
    /\ UNCHANGED mVars
    /\ UNCHANGED sVars

KNext == CallMarshalWARCRecord \/ CallUnmarshalWARCRecord

SpecKinds == KInit /\ [][KNext]_vars

(***************************************************************************)
(* The CDX specification: Unmarshal of one CDX text, and Marshal of one    *)
(* value.                                                                  *)
(***************************************************************************)

CDXHeaderLines ==
    {"CDX N b s", " CDX N b s", "CDX", "CDX N X", "CDX G b", "CDX N\tb  s\r"}

CDXRowLines ==
    {"example.com 20240101100000 200",
     "- - -",
     "example.com 20240101100000",
     "a 20240101100000 3 d",
     "example.com 20240101100000 abc",
     "example.com 20240101100000 0",
     "",
     "   ",
     "example.com\t20240101100000  200\r"}

\* The largest number of data rows in a CDX text.
MaxRows == 2

\* A row that does not fit the scanner's buffer.
LongRow == Rep("x", maxTokenSize)

\* A header line and rows, each ended by "\n", and the same without the
\* last "\n".
CDXText(h, rows, cut) ==
    LET text == h \o "\n" \o JoinLines(rows, "\n")
    IN IF cut THEN SubSeq(text, 1, Len(text) - 1) ELSE text

CDXTexts ==
    {""}
    \cup {CDXText(h, rows, FALSE) :
            h \in CDXHeaderLines,
            rows \in UNION {[1..n -> CDXRowLines] : n \in 0..MaxRows}}
    \cup {CDXText(h, rows, TRUE) :
            h \in CDXHeaderLines,
            rows \in {<< >>} \cup {<<r>> : r \in CDXRowLines}}
    \cup {"CDX N b s\nexample.com 20240101100000 200\n" \o LongRow \o "\na b\n",
          LongRow \o "\n"}

\* The destinations of Unmarshal: a pointer to an empty CDXFile, a pointer
\* to a CDXFile in use, and a CDXFile passed by value.
CDXDsts ==
    {Value("CDXFile", TRUE, ZeroCDXFile),
     Value("CDXFile", TRUE,
           [NewCDXFile(CDX9) EXCEPT !.Records =
               <<[ZeroCDXRecord EXCEPT !.MassagedURL = "old.example.org"]>>]),
     Value("CDXFile", FALSE, ZeroCDXFile)}

SomeCDXRecord ==
    [ZeroCDXRecord EXCEPT !.MassagedURL = "example.com",
                          !.Date = SomeDate,
                          !.StatusCode = 200]

\* A record with a value in every column of CDX9 and CDX11.
FullCDXRecord ==
    [SomeCDXRecord EXCEPT !.OriginalURL = "http://example.com/",
                          !.MIMEType = "text/html",
                          !.NewChecksum = "sha1:abc",
                          !.Redirect = "http://example.org/",
                          !.MetaTags = "noindex",
                          !.CompressedSize = 512,
                          !.CompressedArcOffset = 1234,
                          !.Filename = "crawl.warc.gz"]

\* The values handed to Marshal.
CDXValues ==
    {Value("CDXFile", TRUE, [NewCDXFile(f) EXCEPT !.Records = rs]) :
        f \in {CDX9, CDX11, <<"N", "b", "s">>, <<"s", "N">>, <<"N", "X">>, <<"G">>, << >>},
        rs \in {<< >>, <<SomeCDXRecord>>, <<FullCDXRecord>>,
                <<FullCDXRecord, SomeCDXRecord>>, <<SomeCDXRecord, ZeroCDXRecord>>}}
    \cup {Value("CDXFile", TRUE,
                 CDXFile(CDXHeader(<<"N", "b", "s">>, << >>, NUL), <<SomeCDXRecord>>)),
          Value("CDXFile", TRUE,
                 CDXFile(CDXHeader(<<"N", "b", "s">>, << >>, ","), <<SomeCDXRecord>>)),
          Value("CDXFile", FALSE, NewCDXFile(CDX9)),
          NilValue}

CInit ==
    /\ \/ dData \in CDXTexts /\ dDst \in CDXDsts /\ mIn = NilValue
       \/ dData = "" /\ dDst = Value("CDXFile", TRUE, ZeroCDXFile) /\ mIn \in CDXValues
    /\ dOp = "idle"
    /\ dRes = Result("none", "", ZeroCDXFile)
    /\ mOp = "idle"
    /\ mOut = MResult("none", "", "")
    /\ mBack = Result("none", "", ZeroCDXFile)
    /\ sRecs = << >>
    /\ sSrc = Source("", 1, -1)
    /\ sScan = NewScanner
    /\ sChunks = << >>
    /\ sLast = [chunk |-> "", err |-> "none", eofs |-> 0]
    /\ nRets = << >>

\* cdx.Unmarshal(dData, dDst)
CallCDXUnmarshal ==
    /\ dOp = "idle"
    /\ dRes' = cdxUnmarshal(dData, dDst)
    /\ dOp' = "cdx.Unmarshal"
    /\ UNCHANGED <<dData, dDst>>
    /\ UNCHANGED mVars
    /\ UNCHANGED sVars

\* cdx.Marshal(mIn)
CallCDXMarshal ==
    /\ mOp = "idle"
    /\ mOut' = cdxMarshal(mIn)
    /\ mOp' = "cdx.Marshal"
    /\ UNCHANGED <<mIn, mBack>>
    /\ UNCHANGED dVars
    /\ UNCHANGED sVars

\* cdx.Unmarshal of the bytes Marshal returned, into a new CDXFile.
CallCDXUnmarshalBack ==
    /\ mOp = "cdx.Marshal"
    /\ mOut.outcome = "ok"
    /\ mBack' = cdxUnmarshal(mOut.bytes, Value("CDXFile", TRUE, ZeroCDXFile))
    /\ mOp' = "cdx.Marshal/Unmarshal"
    /\ UNCHANGED <<mIn, mOut>>
    /\ UNCHANGED dVars
    /\ UNCHANGED sVars

\* cdx.Marshal of the CDXFile Unmarshal has just filled.
CallCDXMarshalBack ==
    /\ dOp = "cdx.Unmarshal"
    /\ dRes.outcome = "ok"
    /\ mOp = "idle"
    /\ mIn' = Value("CDXFile", TRUE, dRes.rec)
    /\ mOut' = cdxMarshal(Value("CDXFile", TRUE, dRes.rec))
    /\ mOp' = "cdx.Unmarshal/Marshal"
    /\ UNCHANGED mBack
    /\ UNCHANGED dVars
    /\ UNCHANGED sVars

CNext ==
    \/ CallCDXUnmarshal
    \/ CallCDXMarshal
    \/ CallCDXUnmarshalBack
    \/ CallCDXMarshalBack

SpecCDX == CInit /\ [][CNext]_vars

(***************************************************************************)
(* What an input says, read off its bytes line by line (independently of   *)
(* the buffered reader above): the vocabulary of the decoding properties.  *)
(***************************************************************************)

RECURSIVE LinesFrom(_, _)
\* The newline-terminated lines of data after offset pos, each without its
\* "\n" and with the offset at which it ends.
LinesFrom(data, pos) ==
    LET k == FirstIn(data, "\n", pos + 1, Len(data))
    IN IF k = 0 THEN << >>
       ELSE <<[text |-> SubSeq(data, pos + 1, k - 1), end |-> k]>> \o LinesFrom(data, k)

\* A line without its terminator, "\n" or "\r\n".
Unterminated(text) ==
    IF Len(text) > 0 /\ Ch(text, Len(text)) = "\r"
    THEN SubSeq(text, 1, Len(text) - 1) ELSE text

IsBlank(text) == TrimSpace(text) = ""

\* The lines of the header part: those after the first line, up to the first
\* blank line when there is one.
Parsed(data) ==
    LET ls == LinesFrom(data, 0)
        blanks == {i \in 2..Len(ls) : IsBlank(ls[i].text)}
        b == IF blanks = {} THEN 0 ELSE CHOOSE i \in blanks : \A j \in blanks : i <= j
    IN [hasFirst |-> Len(ls) >= 1,
        first |-> IF Len(ls) >= 1 THEN Unterminated(ls[1].text) ELSE data,
        hasBlank |-> b # 0,
        headers |-> IF b # 0 THEN SubSeq(ls, 2, b - 1) ELSE SubSeq(ls, 2, Len(ls)),
        body |-> IF b # 0 THEN From(data, ls[b].end + 1) ELSE ""]

HasColon(text) == FirstIn(text, ":", 1, Len(text)) # 0

KeyOf(text) == TrimSpace(SubSeq(text, 1, FirstIn(text, ":", 1, Len(text)) - 1))

ValueOf(text) == TrimSpace(From(text, FirstIn(text, ":", 1, Len(text)) + 1))

\* The header lines that carry the key.
LinesWith(pd, key) ==
    {i \in 1..Len(pd.headers) : HasColon(pd.headers[i].text) /\ KeyOf(pd.headers[i].text) = key}

Present(pd, key) == LinesWith(pd, key) # {}

\* The value of the key's last line.
HeaderValue(pd, key) ==
    LET is == LinesWith(pd, key)
    IN ValueOf(pd.headers[CHOOSE i \in is : \A j \in is : j <= i].text)

\* A supported version line, header lines that all hold a colon, and the
\* blank line that ends them.
WellFormedHead(pd) ==
    /\ pd.hasFirst
    /\ pd.first \in {"WARC/1.0", "WARC/1.1"}
    /\ pd.hasBlank
    /\ \A i \in 1..Len(pd.headers) : HasColon(pd.headers[i].text)

IsDecimal(v) == Len(v) > 0 /\ AllDigits(v)

\* The head is well formed and declares a decimal Content-Length.
Declares(pd) ==
    /\ WellFormedHead(pd)
    /\ Present(pd, "Content-Length")
    /\ IsDecimal(HeaderValue(pd, "Content-Length"))

Declared(pd) == DigitsVal(HeaderValue(pd, "Content-Length"))

IsUnmarshal == dOp \in {"Unmarshal/warc", "Unmarshal/gwarc"}

Called == dOp # "idle"

RequiredKeys == {WARCRecordTags[i].key : i \in {j \in 1..Len(WARCRecordTags) : ~WARCRecordTags[j].omitempty}}

(***************************************************************************)
(* Properties of decoding, checked under SpecDecode.                       *)
(***************************************************************************)

\* C3: after every successful Unmarshal into a WARCRecord, the record's
\* ContentLength field equals the value of the Content-Length header and
\* len(Content) equals ContentLength.
C3_ContentLengthField ==
    (dOp = "Unmarshal/warc" /\ dRes.outcome = "ok" /\ Declares(Parsed(dData)))
        => /\ dRes.rec.ContentLength = Declared(Parsed(dData))
           /\ Len(dRes.rec.Content) = dRes.rec.ContentLength

\* C4: for every input with a well-formed header block declaring
\* Content-Length n and at least n bytes after the blank line, Unmarshal sets
\* Content to exactly the first n bytes that follow the blank line, whatever
\* n is.
C4_ContentExact ==
    LET pd == Parsed(dData)
    IN (dOp = "Unmarshal/warc" /\ Declares(pd) /\ Len(pd.body) >= Declared(pd))
        => /\ dRes.outcome = "ok"
           /\ dRes.rec.Content = SubSeq(pd.body, 1, Declared(pd))

\* C5: Unmarshal and Valid return an error whenever fewer bytes are available
\* after the blank line than the declared Content-Length, for every
\* shortfall.
C5_ShortPayloadFails ==
    LET pd == Parsed(dData)
    IN (Called /\ Declares(pd) /\ Len(pd.body) < Declared(pd))
        => dRes.outcome = "error"

\* C6: Unmarshal into a WARCRecord returns an error whenever the header block
\* lacks a required wire key (WARC-Record-ID, Content-Length, WARC-Date,
\* WARC-Type); when an optional key is absent, decoding a well-formed record
\* succeeds and leaves the field of a fresh record at its zero value.
C6_RequiredKeys ==
    LET pd == Parsed(dData)
    IN /\ (IsUnmarshal /\ \E k \in RequiredKeys : ~Present(pd, k))
            => dRes.outcome = "error"
       /\ (IsUnmarshal /\ dRes.outcome = "ok" /\ dDst = ZeroWARCRecord)
            => \A i \in 1..Len(WARCRecordTags) :
                  (WARCRecordTags[i].omitempty /\ ~Present(pd, WARCRecordTags[i].key))
                      => dRes.rec[WARCRecordTags[i].name] = ZeroOf(WARCRecordTags[i].kind)

\* A non-blank line of the header part that holds no ':'.
HasColonlessLine(pd) ==
    \E i \in 1..Len(pd.headers) :
        ~IsBlank(pd.headers[i].text) /\ ~HasColon(pd.headers[i].text)

\* C8: Unmarshal and Valid return an error for every input in which some
\* non-blank line between the version line and the first blank line contains
\* no ':' character, regardless of what the other header lines are.
C8_ColonlessLineFails ==
    (Called /\ HasColonlessLine(Parsed(dData))) => dRes.outcome = "error"

\* C8 witness: a call on an input with a supported version line and a
\* colonless header line before the blank line, refused for that line.
C8_Witness ==
    /\ Called
    /\ HasColonlessLine(Parsed(dData))
    /\ Parsed(dData).hasBlank
    /\ Parsed(dData).first = "WARC/1.0"
    /\ dRes.outcome = "error"
    /\ dRes.err = "invalid header format"

\* C9: Unmarshal and Valid return an error for every input whose first line,
\* after removing the line terminator, is not exactly "WARC/1.0" or
\* "WARC/1.1".
C9_VersionLineExact ==
    (Called /\ Parsed(dData).first \notin {"WARC/1.0", "WARC/1.1"})
        => dRes.outcome = "error"

\* A present header whose value does not convert to its field's type.
Unconvertible(pd) ==
    \E i \in 1..Len(WARCRecordTags) :
        LET t == WARCRecordTags[i]
        IN /\ Present(pd, t.key)
           /\ \/ t.kind \in {"int", "uint"} /\ ~IsDecimal(HeaderValue(pd, t.key))
              \/ t.kind = "time" /\ ~ParseRFC3339(HeaderValue(pd, t.key)).ok

\* C10: Unmarshal returns an error whenever a present header's value cannot
\* be converted to its field's type; the field is never silently left at
\* zero.
C10_ConversionFails ==
    (IsUnmarshal /\ Unconvertible(Parsed(dData))) => dRes.outcome = "error"

(***************************************************************************)
(* Properties of encoding, checked under SpecMarshal.                      *)
(***************************************************************************)

\* The record a round trip is to return: r with ContentLength recomputed.
Expected(r) == [r EXCEPT !.ContentLength = Len(r.Content)]

\* C2: for every WARCRecord r that passes Validate, Unmarshal(Marshal(r))
\* succeeds and yields a record field-wise equal to r, including the
\* ConcurrentTo list, the unsigned fields (ContentLength recomputed as
\* len(Content), SegmentTotalLength) and the Content bytes.
C2_RoundTrip ==
    (mOp \in {"back/warc", "back/gwarc"} /\ ValidateWARCRecord(mIn.val) = "")
        => /\ mBack.outcome = "ok"
           /\ mBack.rec = Expected(mIn.val)

\* C7: Marshal returns an error and no bytes whenever the record it is given,
\* whether passed as a pointer or as a struct value, is missing a required
\* field for its kind.
C7_MarshalRequires ==
    (mOp = "marshalled" /\ mIn.type \in StructTypes /\ Validate(mIn.type, mIn.val) # "")
        => /\ mOut.outcome = "error"
           /\ mOut.bytes = ""

\* The keys of the header lines of encoded bytes, in the order of the lines.
KeysOf(pd) == [i \in 1..Len(pd.headers) |-> KeyOf(pd.headers[i].text)]

\* The place of a wire key among the tagged fields of a struct type.
DeclIndex(type, key) ==
    CHOOSE i \in 1..Len(TagsOf(type)) : TagsOf(type)[i].key = key

\* Marshal returned the encoding of a WARCRecord.
MarshalledRecord ==
    mOp = "marshalled" /\ mIn.type = "WARCRecord" /\ mOut.outcome = "ok"

\* C11: Marshal emits the header lines of a record in the declaration order
\* of the record's tagged fields, for every record and on every call: of two
\* lines with different keys, the one whose field is declared first comes
\* first.
C11_DeclarationOrder ==
    MarshalledRecord
        => LET ks == KeysOf(Parsed(mOut.bytes))
           IN \A i, j \in 1..Len(ks) :
                (/\ i < j
                 /\ ks[i] # ks[j]
                 /\ \A h \in 1..(j - 1) : ks[h] # ks[j])
                    => DeclIndex(mIn.type, ks[i]) < DeclIndex(mIn.type, ks[j])

\* C12: for every WARCRecord, the output of Marshal contains exactly one
\* Content-Length header line and its value is len(Content), whatever value
\* the caller left in the record's ContentLength field.
C12_OneContentLength ==
    MarshalledRecord
        => LET pd == Parsed(mOut.bytes)
           IN /\ Cardinality(LinesWith(pd, "Content-Length")) = 1
              /\ HeaderValue(pd, "Content-Length") = Itoa(Len(mIn.val.Content))

(***************************************************************************)
(* Properties of the warcinfo and metadata records, checked under          *)
(* SpecKinds.                                                              *)
(***************************************************************************)

\* C13: in the bytes produced by MarshalWARCRecord of a warcinfo or metadata
\* record, the extra-field lines are part of the content payload: the
\* Content-Length header value equals the number of bytes that follow the
\* blank line, extra-field lines included.
C13_ExtrasCounted ==
    (mOp = "marshalled" /\ mIn.type \in KindTypes /\ mOut.outcome = "ok")
        => LET pd == Parsed(mOut.bytes)
           IN /\ Declares(pd)
              /\ Declared(pd) = Len(pd.body)

\* The lines of a chunk's payload.
PayloadLines(pd) == LinesFrom(pd.body \o "\n", 0)

\* The payload lines that are `key: value` lines of the key.
PayloadLinesWith(pd, key) ==
    {i \in 1..Len(PayloadLines(pd)) :
        HasColon(PayloadLines(pd)[i].text) /\ KeyOf(PayloadLines(pd)[i].text) = key}

\* The value of the key's last payload line.
PayloadValue(pd, key) ==
    LET is == PayloadLinesWith(pd, key)
    IN ValueOf(PayloadLines(pd)[CHOOSE i \in is : \A j \in is : j <= i].text)

\* A well-formed chunk whose payload is as long as declared, and whose
\* payload lines for the unsigned extra fields of the kind hold decimal
\* values.
DecodableKind(pd, type) ==
    /\ Declares(pd)
    /\ Declared(pd) = Len(pd.body)
    /\ \A i \in 1..Len(ExtraTags(type)) :
          LET t == ExtraTags(type)[i]
          IN (t.kind = "uint" /\ PayloadLinesWith(pd, t.key) # {})
                => \A j \in PayloadLinesWith(pd, t.key) :
                      IsDecimal(ValueOf(PayloadLines(pd)[j].text))

\* C14: decoding a warcinfo or metadata record populates every extra field
\* of its kind from the matching `key: value` line of the payload; a payload
\* line without a colon is skipped and does not prevent the other fields
\* from being populated.
C14_ExtrasPopulated ==
    LET pd == Parsed(dData)
        type == KindOf(dDst)
    IN (dOp = "UnmarshalWARCRecord" /\ DecodableKind(pd, type))
        => /\ dRes.outcome = "ok"
           /\ \A i \in 1..Len(ExtraTags(type)) :
                 LET t == ExtraTags(type)[i]
                 IN PayloadLinesWith(pd, t.key) # {}
                       => dRes.rec[t.name] =
                            (IF t.kind = "uint" THEN DigitsVal(PayloadValue(pd, t.key))
                             ELSE PayloadValue(pd, t.key))

(***************************************************************************)
(* Properties of Next, checked under SpecNext.                             *)
(***************************************************************************)

\* The WARC-Type value of a chunk, empty when it has none.
ChunkType(pd) == IF Present(pd, "WARC-Type") THEN HeaderValue(pd, "WARC-Type") ELSE ""

\* The variant a WARC-Type value calls for.
VariantOf(type) ==
    CASE type = "warcinfo" -> "warc.WarcInfoRecord"
      [] type = "metadata" -> "warc.MetadataRecord"
      [] OTHER -> "warc.WARCRecord"

\* C15: for every chunk that decodes successfully, Next returns kind equal
\* to the chunk's WARC-Type value and a record of the matching variant (a
\* WarcInfoRecord for "warcinfo", a MetadataRecord for "metadata", a plain
\* WARCRecord with the payload left as it is for any other type), and
\* successive Next calls return the records in stream order.
C15_NextByType ==
    /\ HasPrefix(sSrc.bytes, Concat([i \in 1..Len(nRets) |-> nRets[i].chunk]))
    /\ \A i \in 1..Len(nRets) :
        /\ nRets[i].err = "EOF"
              => Concat([j \in 1..i |-> nRets[j].chunk]) = sSrc.bytes
        /\ nRets[i].err = ""
              => LET pd == Parsed(nRets[i].chunk)
                 IN /\ nRets[i].kind = ChunkType(pd)
                    /\ nRets[i].record.type = VariantOf(ChunkType(pd))
                    /\ nRets[i].record.val.Type = ChunkType(pd)
                    /\ (Declares(pd) /\ Declared(pd) = Len(pd.body))
                          => nRets[i].record.val.Content = pd.body

\* C15 witness: a warcinfo record and then a metadata record were read, each
\* returned as its variant with its extra fields.
C15_Witness ==
    /\ Len(nRets) = 2
    /\ nRets[1].err = "" /\ nRets[1].kind = "warcinfo"
    /\ nRets[1].record.type = "warc.WarcInfoRecord"
    /\ nRets[1].record.val.Operator = "op"
    /\ nRets[2].err = "" /\ nRets[2].kind = "metadata"
    /\ nRets[2].record.type = "warc.MetadataRecord"
    /\ nRets[2].record.val.FetchTimeMs = 12

(***************************************************************************)
(* Properties of the segmenter, checked under SpecSegment.                 *)
(***************************************************************************)

\* The source is the records back to back and its reads do not fail.
CleanSource == sSrc.bytes = Concat(sRecs) /\ sSrc.failAt < 0

\* C1: for a source made of N well-formed records back to back, whose
\* payloads and header values may hold any bytes, the marker "WARC/"
\* included, NextChunk returns exactly N chunks before io.EOF, and the i-th
\* chunk is exactly the bytes of the i-th record.
C1_OneChunkPerRecord ==
    CleanSource
        => /\ Len(sChunks) <= Len(sRecs)
           /\ \A i \in 1..Len(sChunks) : sChunks[i] = sRecs[i]
           /\ sLast.err = "EOF" => Len(sChunks) = Len(sRecs)

\* C16: if reading the source fails (a read error other than io.EOF, or the
\* scanner stopping at its token limit) before a complete record is
\* available, NextChunk returns that failure as its error; it returns io.EOF
\* only when the source was read to its end without error.
C16_ReadFailureReported ==
    sLast.err \notin {"", "none"} => sLast.err = sScan.err

\* C17: every NextChunk call made after the first io.EOF also returns io.EOF
\* with a nil chunk, whatever the source holds.
C17_EOFStays ==
    sLast.eofs >= 1 => (sLast.err = "EOF" /\ sLast.chunk = "")

(***************************************************************************)
(* Properties of package cdx, checked under SpecCDX.                       *)
(***************************************************************************)

\* The lines of a CDX text, each without its "\n" or "\r\n".
CDXLines(data) ==
    LET ls == LinesFrom(data \o "\n", 0)
    IN [i \in 1..Len(ls) |-> Unterminated(ls[i].text)]

\* The column codes the header line declares.
HeaderCodes(data) == Tail(Fields(CDXLines(data)[1]))

\* The data rows: the lines after the header that are not empty.
DataRows(data) == SelectSeq(Tail(CDXLines(data)), LAMBDA l : l # "")

KnownCodes == {CDXRecordTags[i].code : i \in 1..Len(CDXRecordTags)}

CDXUnmarshalled == dOp = "cdx.Unmarshal" /\ dData # ""

\* C18: CDX Unmarshal returns an error whenever some non-empty data row
\* splits into a number of whitespace-separated fields different from the
\* number of column codes in the header line, whichever row it is.
C18_FieldCountMismatch ==
    LET rows == DataRows(dData)
        codes == HeaderCodes(dData)
    IN (/\ CDXUnmarshalled
        /\ \E i \in 1..Len(rows) : Len(Fields(rows[i])) # Len(codes))
          => dRes.outcome = "error"

\* C18 witness: a header of three known columns, a first row of three
\* fields and a second row of four, refused for its length.
C18_Witness ==
    /\ CDXUnmarshalled
    /\ dDst.ptr
    /\ HeaderCodes(dData) = <<"N", "b", "s">>
    /\ Len(DataRows(dData)) = 2
    /\ Len(Fields(DataRows(dData)[1])) = 3
    /\ Len(Fields(DataRows(dData)[2])) = 4
    /\ dRes.outcome = "error"
    /\ dRes.err = "invalid record length"

\* C19: CDX Unmarshal returns an error whenever the header line declares a
\* column code that matches no CDXRecord field tag, whether the file has
\* zero, one or many data rows; CDX Marshal likewise never emits a row for a
\* format containing such a code.
C19_UnknownCode ==
    /\ (/\ CDXUnmarshalled
        /\ \E i \in 1..Len(HeaderCodes(dData)) :
              Ch(HeaderCodes(dData)[i], 1) \notin KnownCodes)
          => dRes.outcome = "error"
    /\ (/\ mOp = "cdx.Marshal"
        /\ mIn.type = "CDXFile"
        /\ \E i \in 1..Len(mIn.val.Header.Format) :
              mIn.val.Header.Format[i] \notin KnownCodes
        /\ Len(mIn.val.Records) > 0)
          => mOut.outcome = "error"

\* The kind of the field tagged with a known code.
KindOfCode(code) == CDXRecordTags[CHOOSE i \in TagIndexes(code) : TRUE].kind

NameOfCode(code) == CDXRecordTags[CHOOSE i \in TagIndexes(code) : TRUE].name

\* A value a column of the kind holds: the sentinel, or what the kind reads.
Readable(kind, value) ==
    \/ value = "-"
    \/ kind = "string"
    \/ kind = "int" /\ IsDecimal(value)
    \/ kind = "time" /\ Len(value) = 14 /\ ParseCDXTime(value).ok

\* A CDX text of known columns whose rows all have a readable value in
\* every column, handed over with a pointer to the destination.
ReadableCDX ==
    /\ CDXUnmarshalled
    /\ dDst.ptr
    /\ HasPrefix(CDXLines(dData)[1], "CDX ")
    /\ \A i \in 1..Len(HeaderCodes(dData)) :
          Len(HeaderCodes(dData)[i]) = 1 /\ HeaderCodes(dData)[i] \in KnownCodes
    /\ \A i \in 1..Len(DataRows(dData)) :
          LET parts == Fields(DataRows(dData)[i])
          IN /\ Len(parts) = Len(HeaderCodes(dData))
             /\ \A j \in 1..Len(parts) :
                   Readable(KindOfCode(HeaderCodes(dData)[j]), parts[j])

\* C20: CDX Unmarshal decodes the sentinel "-" in any column without error,
\* to the empty value of that column's kind: the empty string for a string
\* column, 0 for an integer column, and the zero time for the date column.
C20_SentinelDecodes ==
    ReadableCDX
        => /\ dRes.outcome = "ok"
           /\ Len(dRes.rec.Records) = Len(DataRows(dData))
           /\ \A i \in 1..Len(DataRows(dData)) :
                 \A j \in 1..Len(HeaderCodes(dData)) :
                    Fields(DataRows(dData)[i])[j] = "-"
                       => dRes.rec.Records[i][NameOfCode(HeaderCodes(dData)[j])]
                            = ZeroOf(KindOfCode(HeaderCodes(dData)[j]))

\* The value of a column with the sentinel "-" read as the empty string.
CDXNorm(kind, v) == IF kind = "string" /\ v = "-" THEN "" ELSE v

\* Marshal has encoded a CDXFile of known columns and Unmarshal has decoded
\* the bytes again.
CDXRoundTrip ==
    /\ mOp = "cdx.Marshal/Unmarshal"
    /\ mIn.type = "CDXFile"
    /\ \A i \in 1..Len(mIn.val.Header.Format) :
          mIn.val.Header.Format[i] \in KnownCodes

\* C21: CDX round trip: for every CDXFile whose format uses only known
\* column codes and whose string values contain no whitespace,
\* Unmarshal(Marshal(file)) succeeds and returns the same format and the
\* same records in the same order, where an empty or zero field and the
\* sentinel "-" count as equal.
C21_CDXRoundTrip ==
    CDXRoundTrip
        => /\ mBack.outcome = "ok"
           /\ mBack.rec.Header.Format = mIn.val.Header.Format
           /\ Len(mBack.rec.Records) = Len(mIn.val.Records)
           /\ \A i \in 1..Len(mIn.val.Records) :
                 \A j \in 1..Len(mIn.val.Header.Format) :
                    LET code == mIn.val.Header.Format[j]
                    IN CDXNorm(KindOfCode(code), mBack.rec.Records[i][NameOfCode(code)])
                          = CDXNorm(KindOfCode(code), mIn.val.Records[i][NameOfCode(code)])

\* A field written canonically for its kind: a decimal integer without sign
\* or leading zeros, a date of 14 digits, any string.
CanonicalField(kind, value) ==
    \/ kind = "string"
    \/ kind = "int" /\ IsDecimal(value) /\ (Len(value) = 1 \/ Ch(value, 1) # "0")
    \/ kind = "time" /\ Len(value) = 14 /\ AllDigits(value)

\* Unmarshal has decoded a text of a header and at least one row, all
\* written canonically, and Marshal has encoded the decoded file.
CanonicalCDX ==
    /\ mOp = "cdx.Unmarshal/Marshal"
    /\ Len(DataRows(dData)) > 0
    /\ CDXLines(dData)[1] = Join(<<"CDX">> \o HeaderCodes(dData), " ")
    /\ \A j \in 1..Len(HeaderCodes(dData)) :
          Len(HeaderCodes(dData)[j]) = 1 /\ HeaderCodes(dData)[j] \in KnownCodes
    /\ \A i \in 1..Len(DataRows(dData)) :
          LET parts == Fields(DataRows(dData)[i])
          IN /\ DataRows(dData)[i] = Join(parts, " ")
             /\ \A j \in 1..Len(parts) :
                   CanonicalField(KindOfCode(HeaderCodes(dData)[j]), parts[j])

\* C22: for every CDX header and row that Unmarshal decodes successfully
\* and whose fields are written canonically, Marshal of the decoded file
\* with the same format reproduces that header line and that row byte for
\* byte.
C22_CanonicalReproduced ==
    CanonicalCDX
        => /\ mOut.outcome = "ok"
           /\ mOut.bytes = JoinLines(<<CDXLines(dData)[1]>> \o DataRows(dData), "\n")

\* What a field's text stands for in a column of the kind.
FieldValue(kind, text) ==
    CASE kind = "string" -> text
      [] kind = "int" -> ParseInt(text).val
      [] kind = "time" -> ParseCDXTime(text).t

\* Unmarshal has returned nil: the format is the header's codes in order and
\* Records[i] holds the fields of the i-th non-empty row.
DecodedInOrder ==
    LET rows == DataRows(dData)
        codes == HeaderCodes(dData)
        file == dRes.rec
    IN /\ file.Header.Format = [j \in 1..Len(codes) |-> Ch(codes[j], 1)]
       /\ Len(file.Records) = Len(rows)
       /\ \A i \in 1..Len(rows) : \A j \in 1..Len(codes) :
             codes[j] \in KnownCodes
                => file.Records[i][NameOfCode(codes[j])]
                     = FieldValue(KindOfCode(codes[j]), Fields(rows[i])[j])

\* Marshal has returned bytes: the header line, then one line per record,
\* each ended by one newline.
EncodedInOrder ==
    LET file == mIn.val
        pieces == Split(mOut.bytes, "\n")
    IN /\ mOut.outcome = "ok"
       /\ Len(pieces) = Len(file.Records) + 2
       /\ pieces[Len(pieces)] = ""
       /\ pieces[1] = Join(<<"CDX">> \o file.Header.Format, " ")
       /\ \A i \in 1..Len(file.Records) :
             pieces[i + 1] = marshalRecord(file.Records[i], file.Header.Format,
                                           file.Header.Delimiter)

\* C23: CDX order preservation: Unmarshal returns Header.Format equal to
\* the header line's column codes in order and Records[i] decoded from the
\* i-th non-empty data row; Marshal writes the header line "CDX" followed
\* by the format codes in order and then one line per record in Records
\* order, each terminated by exactly one newline.
C23_OrderPreserved ==
    /\ (CDXUnmarshalled /\ dRes.outcome = "ok") => DecodedInOrder
    /\ (mOp = "cdx.Marshal" /\ mIn.type = "CDXFile" /\ mIn.ptr) => EncodedInOrder

\* The delimiter in force: the configured one, a space when none is.
DelimiterOf(header) == IF header.Delimiter = NUL THEN " " ELSE header.Delimiter

\* C24: CDX Marshal joins the values of a row with the CDXFile's
\* Header.Delimiter, and with a single space when no delimiter has been
\* configured (Header.Delimiter left at its zero value).
C24_DelimiterJoins ==
    (mOp = "cdx.Marshal" /\ mIn.type = "CDXFile" /\ mIn.ptr)
        => LET file == mIn.val
               pieces == Split(mOut.bytes, "\n")
               first == IF Len(file.Header.Format) > 0 THEN 1 ELSE 0
           IN /\ mOut.outcome = "ok"
              /\ Len(pieces) = first + Len(file.Records) + 1
              /\ \A i \in 1..Len(file.Records) :
                    pieces[first + i] = marshalRecord(file.Records[i], file.Header.Format,
                                                      DelimiterOf(file.Header))

\* C25: whenever WARC Unmarshal returns an error, the destination record is
\* left exactly as it was before the call (no Version, Content or header
\* field has been written), and whenever Next returns an error its returned
\* record is nil.
C25_ErrorLeavesDestination ==
    /\ (dOp = "Unmarshal/warc" /\ dRes.outcome = "error") => dRes.rec = dDst
    /\ \A i \in 1..Len(nRets) : nRets[i].err # "" => nRets[i].record = NilValue

\* C26: whenever CDX Unmarshal returns an error (bad header, field-count
\* mismatch, field conversion failure, or a scanner failure such as an
\* over-long line), the destination CDXFile is left exactly as it was before
\* the call; rows decoded before the failure are never stored into it.
C26_CDXErrorLeavesDestination ==
    (dOp = "cdx.Unmarshal" /\ dRes.outcome = "error") => dRes.rec = dDst.val

\* C27: Unmarshal and Valid never panic: for every byte input, including
\* one whose Content-Length header is a negative decimal number, they
\* return either nil or an error value.
C27_NeverPanics == Called => dRes.outcome \in {"ok", "error"}

\* C28: the segmenter neither drops nor reorders bytes: for every source
\* that begins with "WARC/", at the moment NextChunk first returns io.EOF the
\* concatenation of all chunks returned so far, in order, equals the entire
\* source, whatever the size of a record.
C28_NoBytesDropped ==
    (/\ HasPrefix(sSrc.bytes, Marker)
     /\ sSrc.failAt < 0
     /\ sLast.err = "EOF"
     /\ sLast.eofs = 1)
        => Concat(sChunks) = sSrc.bytes

\* C29: Marshal returns an error for every record whose Version is not one
\* of the two supported revisions "1.0" and "1.1"; consequently the version
\* line of every successful Marshal output is accepted by Unmarshal.
C29_VersionChecked ==
    /\ (/\ mOp # "idle"
        /\ mIn.type \in StructTypes
        /\ ~SupportedVersion(mIn.val.Version))
          => mOut.outcome = "error"
    /\ mOp \in {"back/warc", "back/gwarc"}
          => mBack.err \notin {"failed to read version", "unsupported WARC version"}

\* C30: Marshal emits a header line for an omit-if-empty field only when
\* that field holds a non-zero value: an optional field left unset is
\* omitted whatever its kind, i.e. an empty string, an empty ConcurrentTo
\* list, a zero SegmentNumber or SegmentTotalLength, and a zero RefersToDate
\* all produce no header line.
C30_UnsetOmitted ==
    MarshalledRecord
        => \A i \in 1..Len(WARCRecordTags) :
              LET t == WARCRecordTags[i]
              IN (t.omitempty /\ mIn.val[t.name] = ZeroOf(t.kind))
                    => ~Present(Parsed(mOut.bytes), t.key)

====
